---- MODULE Spec2Model ----
(***************************************************************************)
(* Model of the ds-algo-lab core containers: the binary search tree and    *)
(* the AVL tree (src/data_structures/binary_search_tree.py, avl_tree.py),  *)
(* the plain binary tree (binary_tree.py), the chaining hash table         *)
(* (hash_table.py), the adjacency-list graph (graph.py), the Array and     *)
(* the LinkedList (array.py, linked_list.py), and of the step-producing    *)
(* algorithms run on them: breadth- and depth-first search                 *)
(* (src/algorithms/graph), the six sorts and the four searches on an       *)
(* Array (src/algorithms/sorting, searching).  Each part has its own       *)
(* specification (SpecTree, SpecBinaryTree, SpecHashTable, SpecGraph,      *)
(* SpecSequence, SpecTraversal, SpecArrayAlgorithm) over its own           *)
(* variables; the variables of the other parts stay at their initial       *)
(* values.  SpecAlgorithm is an algorithm object of any of the twelve      *)
(* classes; in SpecHeldSteps its caller changes the container after        *)
(* execute, in SpecObserved a visualizer is attached to a traversal.       *)
(***************************************************************************)
EXTENDS Integers, Sequences, FiniteSets, TLC

(***************************************************************************)
(* Bounds of the model.                                                    *)
(***************************************************************************)
\* tree values are 1..MaxValue
MaxValue == 5
\* a tree accepts insert calls while its _size is below MaxTreeSize
MaxTreeSize == 6
\* hash table keys are the integers -2..MaxKey
MaxKey == 1
\* graph vertices are 1..MaxVertex
MaxVertex == 3
\* add_edge is called while the adjacency lists hold fewer than MaxEntries entries
MaxEntries == 3
\* a traversed graph is built by at most MaxEdges add_edge calls
MaxEdges == 2
\* an array passed to a sort or a search has at most MaxLen elements
MaxLen == 4
\* the elements of an array have the keys 1..MaxElement
MaxElement == 3
\* execute is called at most MaxExecutions times on one algorithm object
MaxExecutions == 2
\* an Array or a LinkedList used on its own holds at most MaxSize items
MaxSize == 3
\* the items of such a container, and the values of a plain binary tree, are 1..MaxItem
MaxItem == 2

VARIABLES
    tree_class,     \* "AVL" or "BST": the class of the tree object
    tree_root,      \* self._root
    tree_size,      \* self._size
    tree_inserted,  \* history: the set of values passed to insert so far
    tree_last       \* history: the last call, its argument and its outcome

treeVars == <<tree_class, tree_root, tree_size, tree_inserted, tree_last>>

VARIABLES
    ht_capacity,               \* self._capacity
    ht_load_factor_threshold,  \* self._load_factor_threshold, the fraction num/den
    ht_buckets,                \* self._buckets; bucket index i is ht_buckets[i + 1]
    ht_size,                   \* self._size
    ht_initial_capacity,       \* history: the initial_capacity of the constructor
    ht_resizes,                \* history: the number of _resize calls so far
    ht_deleted,                \* history: some delete call has removed a pair
    ht_last                    \* history: the last call, its arguments and its result

htVars == <<ht_capacity, ht_load_factor_threshold, ht_buckets, ht_size,
            ht_initial_capacity, ht_resizes, ht_deleted, ht_last>>

VARIABLES
    g_directed,        \* self._directed
    g_adjacency_list,  \* self._adjacency_list: vertex -> sequence of <<neighbor, weight>>
    g_size,            \* self._size
    g_last             \* history: the last call, its arguments and its result

graphVars == <<g_directed, g_adjacency_list, g_size, g_last>>

VARIABLES
    tr_class,            \* "BFS" or "DFS": the class of the algorithm object
    tr_adjacency_list,   \* the _adjacency_list of the graph passed to execute
    tr_start_vertex,     \* self._start_vertex: None or <<vertex>>
    tr_pc,               \* "idle", the phase of the yield _run is suspended at, or "done"
    tr_visited,          \* the local visited
    tr_queue,            \* the local queue of BFS
    tr_stack,            \* the local stack of DFS
    tr_traversal_order,  \* the local traversal_order
    tr_current,          \* the local current
    tr_neighbors,        \* the local neighbors
    tr_index,            \* the position of the for loop in neighbors
    tr_step_number,      \* the local step_number
    tr_visualizer,       \* self._visualizer is set: attach_visualizer has been called
    tr_visualize,        \* the visualize argument of the last execute
    tr_received,         \* history: the records passed to self._visualizer.update by the last execute
    tr_steps             \* self._steps, the list execute returns

trVars == <<tr_class, tr_adjacency_list, tr_start_vertex, tr_pc, tr_visited, tr_queue,
            tr_stack, tr_traversal_order, tr_current, tr_neighbors, tr_index,
            tr_step_number, tr_steps, tr_visualizer, tr_visualize, tr_received>>

VARIABLES
    alg_class,        \* the class of the array algorithm object (a sort or a search)
    arr_data,         \* the _data list of the Array passed to execute
    alg_step_number,  \* self._step_number of merge, quick and heap sort, else None
    alg_steps,        \* self._steps, the list execute returns
    alg_last          \* history: the last execute, its inputs and what it did to the Array

algVars == <<alg_class, arr_data, alg_step_number, alg_steps, alg_last>>

VARIABLES
    seq_class,  \* "Array" or "LinkedList": the class of the sequence container
    seq_data,   \* self._data of an Array; the values of the nodes from self._head on
    seq_size,   \* len(self._data) of an Array; self._size of a LinkedList
    seq_last    \* history: the last call, its arguments and its outcome

seqVars == <<seq_class, seq_data, seq_size, seq_last>>

vars == <<treeVars, htVars, graphVars, trVars, algVars, seqVars>>

\* what an operation on one container leaves alone: the other containers
notTree == <<htVars, graphVars, trVars, algVars, seqVars>>

notHashTable == <<treeVars, graphVars, trVars, algVars, seqVars>>

notGraph == <<treeVars, htVars, trVars, algVars, seqVars>>

notTraversal == <<treeVars, htVars, graphVars, algVars, seqVars>>

notArrayAlgorithm == <<treeVars, htVars, graphVars, trVars, seqVars>>

notSequence == <<treeVars, htVars, graphVars, trVars, algVars>>

(***************************************************************************)
(* TreeNode: a node is the tuple <<value, left, right>>, an absent child   *)
(* (None) is the empty tuple.  Nodes are owned by exactly one parent, so   *)
(* rebinding a child reference is replacing that component.                *)
(***************************************************************************)
None == <<>>

TreeNode(value) == <<value, None, None>>

Node(value, left, right) == <<value, left, right>>

value_of(node) == node[1]

left_of(node) == node[2]

right_of(node) == node[3]

TreeValues == 1..MaxValue

(***************************************************************************)
(* Traversal and search, shared by both classes (the two classes carry     *)
(* textually identical copies).                                            *)
(***************************************************************************)
RECURSIVE inorder_recursive(_)
inorder_recursive(node) ==
    IF node = None THEN <<>>
    ELSE inorder_recursive(left_of(node)) \o <<value_of(node)>>
             \o inorder_recursive(right_of(node))

inorder_traversal == inorder_recursive(tree_root)

RECURSIVE search_recursive(_, _)
search_recursive(node, value) ==
    IF node = None \/ value_of(node) = value THEN node
    ELSE IF value < value_of(node) THEN search_recursive(left_of(node), value)
    ELSE search_recursive(right_of(node), value)

RECURSIVE find_min(_)
find_min(node) ==
    IF left_of(node) # None THEN find_min(left_of(node)) ELSE node

(***************************************************************************)
(* BinarySearchTree                                                        *)
(***************************************************************************)
RECURSIVE BST_insert_recursive(_, _)
BST_insert_recursive(node, value) ==
    IF node = None THEN TreeNode(value)
    ELSE IF value < value_of(node)
         THEN Node(value_of(node), BST_insert_recursive(left_of(node), value), right_of(node))
    ELSE IF value > value_of(node)
         THEN Node(value_of(node), left_of(node), BST_insert_recursive(right_of(node), value))
    ELSE node

RECURSIVE BST_delete_recursive(_, _)
BST_delete_recursive(node, value) ==
    IF node = None THEN None
    ELSE IF value < value_of(node)
         THEN Node(value_of(node), BST_delete_recursive(left_of(node), value), right_of(node))
    ELSE IF value > value_of(node)
         THEN Node(value_of(node), left_of(node), BST_delete_recursive(right_of(node), value))
    ELSE IF left_of(node) = None /\ right_of(node) = None THEN None
    ELSE IF left_of(node) = None THEN right_of(node)
    ELSE IF right_of(node) = None THEN left_of(node)
    ELSE LET successor == find_min(right_of(node))
         IN  Node(value_of(successor), left_of(node),
                  BST_delete_recursive(right_of(node), value_of(successor)))

(***************************************************************************)
(* AVLTree                                                                 *)
(***************************************************************************)
Max(a, b) == IF a >= b THEN a ELSE b

RECURSIVE AVL_height(_)
AVL_height(node) ==
    IF node = None THEN -1
    ELSE Max(AVL_height(left_of(node)), AVL_height(right_of(node))) + 1

AVL_balance_factor(node) ==
    IF node = None THEN 0
    ELSE AVL_height(left_of(node)) - AVL_height(right_of(node))

\* x = y.left; T2 = x.right; x.right = y; y.left = T2; return x
AVL_rotate_right(y) ==
    LET x  == left_of(y)
        T2 == right_of(x)
    IN  Node(value_of(x), left_of(x), Node(value_of(y), T2, right_of(y)))

\* a left rotation that takes T2 from the wrong side of y (T2 = y.right)
AVL_rotate_left_wrongT2(x) ==
    LET y  == right_of(x)
        T2 == right_of(y)
    IN  Node(value_of(y), Node(value_of(x), left_of(x), T2), right_of(y))

\* y = x.right; T2 = y.left; y.left = x; x.right = T2; return y
AVL_rotate_left(x) ==
    LET y  == right_of(x)
        T2 == left_of(y)
    IN  Node(value_of(y), Node(value_of(x), left_of(x), T2), right_of(y))

AVL_rotate_left_right(z) ==
    AVL_rotate_right(Node(value_of(z), AVL_rotate_left(left_of(z)), right_of(z)))

AVL_rotate_right_left(z) ==
    AVL_rotate_left(Node(value_of(z), left_of(z), AVL_rotate_right(right_of(z))))

\* a rebalance that answers every left-heavy node with a single right rotation
AVL_insert_rebalance_single(node, value) ==
    LET balance == AVL_balance_factor(node)
    IN  IF balance > 1 THEN AVL_rotate_right(node)
        ELSE IF balance < -1 /\ value > value_of(right_of(node)) THEN AVL_rotate_left(node)
        ELSE IF balance < -1 /\ value < value_of(right_of(node)) THEN AVL_rotate_right_left(node)
        ELSE node

\* the four cases checked after the recursive call of _insert_recursive returns
AVL_insert_rebalance(node, value) ==
    LET balance == AVL_balance_factor(node)
    IN  IF balance > 1 /\ value < value_of(left_of(node)) THEN AVL_rotate_right(node)
        ELSE IF balance < -1 /\ value > value_of(right_of(node)) THEN AVL_rotate_left(node)
        ELSE IF balance > 1 /\ value > value_of(left_of(node)) THEN AVL_rotate_left_right(node)
        ELSE IF balance < -1 /\ value < value_of(right_of(node)) THEN AVL_rotate_right_left(node)
        ELSE node

RECURSIVE AVL_insert_recursive(_, _)
AVL_insert_recursive(node, value) ==
    IF node = None THEN TreeNode(value)
    ELSE IF value < value_of(node)
         THEN AVL_insert_rebalance(
                  Node(value_of(node), AVL_insert_recursive(left_of(node), value), right_of(node)),
                  value)
    ELSE IF value > value_of(node)
         THEN AVL_insert_rebalance(
                  Node(value_of(node), left_of(node), AVL_insert_recursive(right_of(node), value)),
                  value)
    ELSE node

\* the four cases checked before _delete_recursive returns
AVL_delete_rebalance(node) ==
    LET balance == AVL_balance_factor(node)
    IN  IF balance > 1 /\ AVL_balance_factor(left_of(node)) >= 0 THEN AVL_rotate_right(node)
        ELSE IF balance > 1 /\ AVL_balance_factor(left_of(node)) < 0 THEN AVL_rotate_left_right(node)
        ELSE IF balance < -1 /\ AVL_balance_factor(right_of(node)) <= 0 THEN AVL_rotate_left(node)
        ELSE IF balance < -1 /\ AVL_balance_factor(right_of(node)) > 0 THEN AVL_rotate_right_left(node)
        ELSE node

RECURSIVE AVL_delete_recursive(_, _)
AVL_delete_recursive(node, value) ==
    IF node = None THEN None
    ELSE IF value < value_of(node)
         THEN AVL_delete_rebalance(
                  Node(value_of(node), AVL_delete_recursive(left_of(node), value), right_of(node)))
    ELSE IF value > value_of(node)
         THEN AVL_delete_rebalance(
                  Node(value_of(node), left_of(node), AVL_delete_recursive(right_of(node), value)))
    ELSE IF left_of(node) = None /\ right_of(node) = None THEN None
    ELSE IF left_of(node) = None THEN right_of(node)
    ELSE IF right_of(node) = None THEN left_of(node)
    ELSE LET successor == find_min(right_of(node))
         IN  AVL_delete_rebalance(
                 Node(value_of(successor), left_of(node),
                      AVL_delete_recursive(right_of(node), value_of(successor))))

(***************************************************************************)
(* The attributes an instance of each class resolves: the methods of the   *)
(* class, those inherited from BaseDataStructure and the instance fields.  *)
(* A call of a name outside this set raises AttributeError.                *)
(***************************************************************************)
BaseDataStructureAttrs ==
    {"attach_visualizer", "_notify_visualizer", "get_state", "_get_internal_state",
     "__len__", "__repr__", "_visualizer", "_operation_history"}

AVLTreeAttrs ==
    BaseDataStructureAttrs \cup
    {"_root", "_size", "_height", "_balance_factor", "_rotate_right", "_rotate_left",
     "_rotate_left_right", "_rotate_right_left", "insert", "_insert_recursive",
     "search", "_search_recursive", "delete", "_delete_recursive", "_find_min",
     "inorder_traversal", "_inorder_recursive"}

BinarySearchTreeAttrs ==
    BaseDataStructureAttrs \cup
    {"_root", "_size", "insert", "_insert_recursive", "search", "_search_recursive",
     "delete", "_delete_recursive", "find_min", "_find_min", "find_max", "_find_max",
     "successor", "predecessor", "inorder_traversal", "_inorder_recursive",
     "preorder_traversal", "_preorder_recursive", "postorder_traversal",
     "_postorder_recursive"}

(***************************************************************************)
(* Tree operations                                                         *)
(***************************************************************************)
TreeCall(op, value, ret, rebalanced) ==
    [op |-> op, value |-> value, ret |-> ret, rebalanced |-> rebalanced]

NewTree ==
    /\ tree_class \in {"AVL", "BST"}
    /\ tree_root = None
    /\ tree_size = 0
    /\ tree_inserted = {}
    /\ tree_last = TreeCall("init", 0, "None", FALSE)

\* the state of the tree before any tree is constructed
IdleTree ==
    /\ tree_class = "BST"
    /\ tree_root = None
    /\ tree_size = 0
    /\ tree_inserted = {}
    /\ tree_last = TreeCall("init", 0, "None", FALSE)

AVL_insert(value) ==
    /\ tree_class = "AVL"
    /\ tree_size < MaxTreeSize
    /\ tree_root' = AVL_insert_recursive(tree_root, value)
    /\ tree_size' = tree_size + 1
    /\ tree_inserted' = tree_inserted \cup {value}
    /\ tree_last' = TreeCall("insert", value, "None",
                             AVL_insert_recursive(tree_root, value)
                                 # BST_insert_recursive(tree_root, value))
    /\ UNCHANGED <<tree_class, notTree>>

BST_insert(value) ==
    /\ tree_class = "BST"
    /\ tree_size < MaxTreeSize
    /\ tree_root' = BST_insert_recursive(tree_root, value)
    /\ tree_size' = tree_size + 1
    /\ tree_inserted' = tree_inserted \cup {value}
    /\ tree_last' = TreeCall("insert", value, "None", FALSE)
    /\ UNCHANGED <<tree_class, notTree>>

\* delete starts with self._search(value); no class defines _search
AVL_delete(value) ==
    /\ tree_class = "AVL"
    /\ IF "_search" \notin AVLTreeAttrs
       THEN /\ tree_last' = TreeCall("delete", value, "AttributeError", FALSE)
            /\ UNCHANGED <<tree_root, tree_size, tree_inserted>>
       ELSE IF search_recursive(tree_root, value) = None
       THEN /\ tree_last' = TreeCall("delete", value, "False", FALSE)
            /\ UNCHANGED <<tree_root, tree_size, tree_inserted>>
       ELSE /\ tree_root' = AVL_delete_recursive(tree_root, value)
            /\ tree_size' = tree_size - 1
            /\ tree_inserted' = tree_inserted \ {value}
            /\ tree_last' = TreeCall("delete", value, "True", FALSE)
    /\ UNCHANGED <<tree_class, notTree>>

BST_delete(value) ==
    /\ tree_class = "BST"
    /\ IF "_search" \notin BinarySearchTreeAttrs
       THEN /\ tree_last' = TreeCall("delete", value, "AttributeError", FALSE)
            /\ UNCHANGED <<tree_root, tree_size, tree_inserted>>
       ELSE IF search_recursive(tree_root, value) = None
       THEN /\ tree_last' = TreeCall("delete", value, "False", FALSE)
            /\ UNCHANGED <<tree_root, tree_size, tree_inserted>>
       ELSE /\ tree_root' = BST_delete_recursive(tree_root, value)
            /\ tree_size' = tree_size - 1
            /\ tree_inserted' = tree_inserted \ {value}
            /\ tree_last' = TreeCall("delete", value, "True", FALSE)
    /\ UNCHANGED <<tree_class, notTree>>

NextTree ==
    \/ \E value \in TreeValues : AVL_insert(value)
    \/ \E value \in TreeValues : AVL_delete(value)
    \/ \E value \in TreeValues : BST_insert(value)
    \/ \E value \in TreeValues : BST_delete(value)

(***************************************************************************)
(* Properties of the trees                                                 *)
(***************************************************************************)
Abs(n) == IF n < 0 THEN -n ELSE n

\* the height of a subtree as the property states it: an absent child counts -1
RECURSIVE SubtreeHeight(_)
SubtreeHeight(node) ==
    IF node = None THEN -1
    ELSE 1 + Max(SubtreeHeight(left_of(node)), SubtreeHeight(right_of(node)))

RECURSIVE EveryNodeBalanced(_)
EveryNodeBalanced(node) ==
    \/ node = None
    \/ /\ Abs(SubtreeHeight(left_of(node)) - SubtreeHeight(right_of(node))) <= 1
       /\ EveryNodeBalanced(left_of(node))
       /\ EveryNodeBalanced(right_of(node))

SeqElems(s) == {s[i] : i \in 1..Len(s)}

NonDecreasing(s) == \A i \in 1..(Len(s) - 1) : s[i] <= s[i + 1]

\* C1: after any sequence of AVLTree.insert and AVLTree.delete calls every
\* node of the tree has |height(left) - height(right)| <= 1, the height of an
\* absent child being -1.
C1_AVLBalance ==
    tree_class = "AVL" => EveryNodeBalanced(tree_root)

\* an insert that rotated and left an AVL tree of height 2
C1_Witness ==
    /\ tree_class = "AVL"
    /\ tree_last.op = "insert"
    /\ tree_last.rebalanced
    /\ SubtreeHeight(tree_root) = 2

\* C2: for every sequence of values inserted into a BinarySearchTree or an
\* AVLTree, inorder_traversal() is non-decreasing and holds exactly the
\* distinct inserted values, each once.
C2_InorderSortedDistinct ==
    /\ NonDecreasing(inorder_traversal)
    /\ SeqElems(inorder_traversal) = tree_inserted
    /\ Len(inorder_traversal) = Cardinality(tree_inserted)

\* an AVL insert that rotated, leaving at least four values in the tree
C2_Witness ==
    /\ tree_class = "AVL"
    /\ tree_last.op = "insert"
    /\ tree_last.rebalanced
    /\ Len(inorder_traversal) >= 4

\* C3: inserting a value that is already in the tree is a no-op: the nodes,
\* the in-order traversal and the reported size are the same after the call
\* as before it.
C3_DuplicateInsertNoOp ==
    [][(/\ tree_last'.op = "insert"
        /\ tree_last'.value \in SeqElems(inorder_traversal))
       => (/\ tree_root' = tree_root
           /\ inorder_traversal' = inorder_traversal
           /\ tree_size' = tree_size)]_vars

\* C4: delete(value) of a value that is not in the tree returns False, does
\* not raise, and leaves the nodes and the size unchanged.
C4_DeleteAbsentReturnsFalse ==
    [][(/\ tree_last'.op = "delete"
        /\ tree_last'.value \notin SeqElems(inorder_traversal))
       => (/\ tree_last'.ret = "False"
           /\ tree_root' = tree_root
           /\ tree_size' = tree_size)]_vars

(***************************************************************************)
(* HashTable                                                               *)
(*                                                                         *)
(* Keys are small integers.  CPython's hash of a small integer is the      *)
(* integer itself, except hash(-1) = -2; Python's % with a positive        *)
(* modulus is non-negative, as is the % of Integers.  The float threshold  *)
(* is the exact fraction num/den and size / capacity > threshold is the    *)
(* comparison size * den > num * capacity.                                 *)
(***************************************************************************)
HTKeys == -2..MaxKey

\* "None" is Python's None, also when stored as a value
HTValues == {"None", "x"}

InitialCapacities == {1, 2, 4}

Thresholds == {[num |-> 1, den |-> 4], [num |-> 3, den |-> 4], [num |-> 1, den |-> 1]}

hash(key) == IF key = -1 THEN -2 ELSE key

HT_hash(capacity, key) == hash(key) % capacity

\* the table object: the three fields the operations read and write
HT_self == [capacity |-> ht_capacity, buckets |-> ht_buckets, size |-> ht_size]

\* the positions of key in a bucket, in scan order
KeyPositions(bucket, key) == {i \in 1..Len(bucket) : bucket[i][1] = key}

FirstPosition(bucket, key) ==
    CHOOSE i \in KeyPositions(bucket, key) : \A j \in KeyPositions(bucket, key) : i <= j

\* bucket.pop(i)
Pop(bucket, i) == SubSeq(bucket, 1, i - 1) \o SubSeq(bucket, i + 1, Len(bucket))

\* [[] for _ in range(capacity)]
RECURSIVE EmptyBuckets(_)
EmptyBuckets(capacity) ==
    IF capacity = 0 THEN <<>> ELSE Append(EmptyBuckets(capacity - 1), <<>>)

\* a _set_internal that appends without looking for the key
HT_set_internal_append(self, key, value) ==
    LET bucket_index == HT_hash(self.capacity, key)
        bucket       == self.buckets[bucket_index + 1]
    IN  [self EXCEPT !.buckets[bucket_index + 1] = Append(bucket, <<key, value>>),
                     !.size = self.size + 1]

\* a _set_internal that finds the key and leaves its old value
HT_set_internal_keep(self, key, value) ==
    LET bucket_index == HT_hash(self.capacity, key)
        bucket       == self.buckets[bucket_index + 1]
    IN  IF KeyPositions(bucket, key) # {}
        THEN self
        ELSE [self EXCEPT !.buckets[bucket_index + 1] = Append(bucket, <<key, value>>),
                          !.size = self.size + 1]

HT_set_internal(self, key, value) ==
    LET bucket_index == HT_hash(self.capacity, key)
        bucket       == self.buckets[bucket_index + 1]
    IN  IF KeyPositions(bucket, key) # {}
        THEN [self EXCEPT !.buckets[bucket_index + 1][FirstPosition(bucket, key)] =
                              <<key, value>>]
        ELSE [self EXCEPT !.buckets[bucket_index + 1] = Append(bucket, <<key, value>>),
                          !.size = self.size + 1]

\* the pairs of all buckets, in the order the two loops of _resize visit them
RECURSIVE PairsFrom(_, _)
PairsFrom(buckets, b) ==
    IF b > Len(buckets) THEN <<>> ELSE buckets[b] \o PairsFrom(buckets, b + 1)

AllPairs(buckets) == PairsFrom(buckets, 1)

\* self after the pairs from position p on are set, in order
RECURSIVE Rehash(_, _, _)
Rehash(self, pairs, p) ==
    IF p > Len(pairs) THEN self
    ELSE Rehash(HT_set_internal(self, pairs[p][1], pairs[p][2]), pairs, p + 1)

\* a _resize that grows the capacity by two instead of doubling it
HT_resize_plus2(self) ==
    Rehash([capacity |-> self.capacity + 2,
            buckets  |-> EmptyBuckets(self.capacity + 2),
            size     |-> 0],
           AllPairs(self.buckets), 1)

\* a _resize that does not reset the size before rehashing
HT_resize_keepsize(self) ==
    Rehash([capacity |-> self.capacity * 2,
            buckets  |-> EmptyBuckets(self.capacity * 2),
            size     |-> self.size],
           AllPairs(self.buckets), 1)

HT_resize(self) ==
    Rehash([capacity |-> self.capacity * 2,
            buckets  |-> EmptyBuckets(self.capacity * 2),
            size     |-> 0],
           AllPairs(self.buckets), 1)

\* a resize test that also fires at equality
HT_exceeds_threshold_ge(self) ==
    IF self.capacity > 0
    THEN self.size * ht_load_factor_threshold.den >= ht_load_factor_threshold.num * self.capacity
    ELSE 0 >= ht_load_factor_threshold.num

\* self._get_load_factor() > self._load_factor_threshold
HT_exceeds_threshold(self) ==
    IF self.capacity > 0
    THEN self.size * ht_load_factor_threshold.den > ht_load_factor_threshold.num * self.capacity
    ELSE 0 > ht_load_factor_threshold.num

\* the value get(key) returns
HT_get_value(self, key) ==
    LET bucket == self.buckets[HT_hash(self.capacity, key) + 1]
    IN  IF KeyPositions(bucket, key) # {}
        THEN bucket[FirstPosition(bucket, key)][2]
        ELSE "None"

HTCall(op, key, value, ret) == [op |-> op, key |-> key, value |-> value, ret |-> ret]

NewHashTable ==
    /\ ht_capacity \in InitialCapacities
    /\ ht_load_factor_threshold \in Thresholds
    /\ ht_buckets = EmptyBuckets(ht_capacity)
    /\ ht_size = 0
    /\ ht_initial_capacity = ht_capacity
    /\ ht_resizes = 0
    /\ ht_deleted = FALSE
    /\ ht_last = HTCall("init", 0, "None", "None")

\* the state of the hash table variables before any table is constructed
IdleHashTable ==
    /\ ht_capacity = 1
    /\ ht_load_factor_threshold = [num |-> 3, den |-> 4]
    /\ ht_buckets = <<<<>>>>
    /\ ht_size = 0
    /\ ht_initial_capacity = 1
    /\ ht_resizes = 0
    /\ ht_deleted = FALSE
    /\ ht_last = HTCall("init", 0, "None", "None")

HT_insert(key, value) ==
    LET set     == HT_set_internal(HT_self, key, value)
        resize  == HT_exceeds_threshold(set)
        after   == IF resize THEN HT_resize(set) ELSE set
    IN  /\ ht_capacity' = after.capacity
        /\ ht_buckets' = after.buckets
        /\ ht_size' = after.size
        /\ ht_resizes' = IF resize THEN ht_resizes + 1 ELSE ht_resizes
        /\ ht_last' = HTCall("insert", key, value, "None")
        /\ UNCHANGED <<ht_load_factor_threshold, ht_initial_capacity, ht_deleted>>
        /\ UNCHANGED notHashTable

HT_get(key) ==
    /\ ht_last' = HTCall("get", key, "None", HT_get_value(HT_self, key))
    /\ UNCHANGED <<ht_capacity, ht_load_factor_threshold, ht_buckets, ht_size,
                   ht_initial_capacity, ht_resizes, ht_deleted>>
    /\ UNCHANGED notHashTable

\* return self.get(key) is not None
HT_contains(key) ==
    /\ ht_last' = HTCall("contains", key, "None",
                         IF HT_get_value(HT_self, key) # "None" THEN "True" ELSE "False")
    /\ UNCHANGED <<ht_capacity, ht_load_factor_threshold, ht_buckets, ht_size,
                   ht_initial_capacity, ht_resizes, ht_deleted>>
    /\ UNCHANGED notHashTable

\* a delete that pops the pair and forgets to decrement the size
HT_delete_nosize(key) ==
    LET bucket_index == HT_hash(ht_capacity, key)
        bucket       == ht_buckets[bucket_index + 1]
    IN  /\ IF KeyPositions(bucket, key) # {}
           THEN /\ ht_buckets' = [ht_buckets EXCEPT ![bucket_index + 1] =
                                      Pop(bucket, FirstPosition(bucket, key))]
                /\ ht_size' = ht_size
                /\ ht_deleted' = TRUE
                /\ ht_last' = HTCall("delete", key, "None", "True")
           ELSE /\ ht_last' = HTCall("delete", key, "None", "False")
                /\ UNCHANGED <<ht_buckets, ht_size, ht_deleted>>
        /\ UNCHANGED <<ht_capacity, ht_load_factor_threshold, ht_initial_capacity, ht_resizes>>
        /\ UNCHANGED notHashTable

HT_delete(key) ==
    LET bucket_index == HT_hash(ht_capacity, key)
        bucket       == ht_buckets[bucket_index + 1]
    IN  /\ IF KeyPositions(bucket, key) # {}
           THEN /\ ht_buckets' = [ht_buckets EXCEPT ![bucket_index + 1] =
                                      Pop(bucket, FirstPosition(bucket, key))]
                /\ ht_size' = ht_size - 1
                /\ ht_deleted' = TRUE
                /\ ht_last' = HTCall("delete", key, "None", "True")
           ELSE /\ ht_last' = HTCall("delete", key, "None", "False")
                /\ UNCHANGED <<ht_buckets, ht_size, ht_deleted>>
        /\ UNCHANGED <<ht_capacity, ht_load_factor_threshold, ht_initial_capacity, ht_resizes>>
        /\ UNCHANGED notHashTable

NextHashTable ==
    \/ \E key \in HTKeys, value \in HTValues : HT_insert(key, value)
    \/ \E key \in HTKeys : HT_get(key)
    \/ \E key \in HTKeys : HT_delete(key)
    \/ \E key \in HTKeys : HT_contains(key)

(***************************************************************************)
(* Properties of the hash table                                            *)
(***************************************************************************)
\* size / capacity <= load_factor_threshold
LoadWithinThreshold ==
    ht_size * ht_load_factor_threshold.den <= ht_load_factor_threshold.num * ht_capacity

\* the occupied places <<bucket, position>> of the table, the pairs stored in
\* them and the keys of those pairs
Places == UNION {{<<b, i>> : i \in 1..Len(ht_buckets[b])} : b \in 1..Len(ht_buckets)}

StoredPairs == {ht_buckets[place[1]][place[2]] : place \in Places}

StoredKeys == {pair[1] : pair \in StoredPairs}

\* every pair sits in the bucket whose index is hash(key) mod capacity
WellPlaced ==
    /\ Len(ht_buckets) = ht_capacity
    /\ \A b \in 1..ht_capacity : \A i \in 1..Len(ht_buckets[b]) :
           hash(ht_buckets[b][i][1]) % ht_capacity = b - 1

\* the buckets after the value of a stored key is replaced where it stands
ReplacedInPlace(key, value) ==
    LET b == HT_hash(ht_capacity, key) + 1
        i == FirstPosition(ht_buckets[b], key)
    IN  [ht_buckets EXCEPT ![b][i] = <<key, value>>]

\* C5 as stated: for every initial capacity >= 1 and every threshold, after
\* each insert returns size / capacity does not exceed load_factor_threshold.
C5_LoadFactorAfterInsert ==
    ht_last.op = "insert" => LoadWithinThreshold

\* C5 as amended: when load_factor_threshold >= 1 / (2 * initial capacity),
\* size / capacity does not exceed load_factor_threshold after each insert
\* returns.
C5_LoadFactorAfterInsertAmended ==
    (/\ ht_last.op = "insert"
     /\ 2 * ht_initial_capacity * ht_load_factor_threshold.num >= ht_load_factor_threshold.den)
    => LoadWithinThreshold

\* an insert that resized, with a threshold the amended statement covers
C5_Witness ==
    /\ ht_last.op = "insert"
    /\ 2 * ht_initial_capacity * ht_load_factor_threshold.num >= ht_load_factor_threshold.den
    /\ ht_resizes >= 2
    /\ ht_size >= 3

\* C6: in every reachable table state, get(k) after insert(k, v) returns v,
\* and get(k) after delete(k) returns None.
C6_RoundTrip ==
    /\ ht_last.op = "insert" => HT_get_value(HT_self, ht_last.key) = ht_last.value
    /\ ht_last.op = "delete" => HT_get_value(HT_self, ht_last.key) = "None"

\* an insert of a real value into a table that has resized and whose bucket
\* for the key holds more than one pair
C6_Witness ==
    /\ ht_last.op = "insert"
    /\ ht_last.value = "x"
    /\ ht_resizes >= 1
    /\ Len(ht_buckets[HT_hash(ht_capacity, ht_last.key) + 1]) >= 2

\* C7: no key occurs twice in the table and size is the number of stored
\* pairs; an insert of a key that is present replaces its value in place and
\* does not change size.
C7_UniqueKeysAndSize ==
    [][/\ Cardinality(StoredKeys') = Cardinality(Places')
       /\ ht_size' = Cardinality(Places')
       /\ (/\ ht_last'.op = "insert"
           /\ ht_last'.key \in StoredKeys)
          => /\ ht_size' = ht_size
             /\ StoredKeys' = StoredKeys
             /\ <<ht_last'.key, ht_last'.value>> \in StoredPairs'
             /\ ht_capacity' = ht_capacity
                => ht_buckets' = ReplacedInPlace(ht_last'.key, ht_last'.value)
      ]_vars

\* a key that was present has just been inserted again with another value
\* into a bucket where it is not the only pair
C7_Witness ==
    /\ ht_last.op = "insert"
    /\ ht_last.value = "None"
    /\ ht_deleted
    /\ ht_size = Cardinality(HTKeys) - 1
    /\ \E b \in 1..ht_capacity :
           /\ Len(ht_buckets[b]) >= 2
           /\ ht_buckets[b][1] = <<ht_last.key, "None">>

\* C8: a resize exactly doubles the capacity and keeps the stored pairs and
\* the size, and in every state each pair is stored in the bucket whose index
\* is hash(key) mod the current capacity.
C8_ResizeDoublesAndRehashes ==
    [][/\ WellPlaced'
       /\ ht_capacity' # ht_capacity
          => /\ ht_capacity' = 2 * ht_capacity
             /\ StoredPairs' =
                    {pair \in StoredPairs : pair[1] # ht_last'.key}
                        \cup {<<ht_last'.key, ht_last'.value>>}
             /\ ht_size' = Cardinality(StoredKeys \cup {ht_last'.key})
      ]_vars

\* a table that has resized and holds, in one bucket, two keys with different
\* hashes
C8_Witness ==
    /\ ht_resizes >= 1
    /\ ht_last.op = "insert"
    /\ \E b \in 1..ht_capacity :
           /\ Len(ht_buckets[b]) >= 2
           /\ hash(ht_buckets[b][1][1]) # hash(ht_buckets[b][2][1])

\* C9: the capacity changes only inside insert; an insert doubles it exactly
\* when the post-insert size / capacity strictly exceeds the threshold; with
\* capacity 4 and threshold 0.75, inserting 4 distinct keys causes exactly one
\* resize, on the 4th insert, to capacity 8.
C9_ResizeOnlyOnInsert ==
    [][/\ ht_last'.op \in {"get", "delete"} => ht_capacity' = ht_capacity
       /\ ht_last'.op = "insert"
          => LET post_size == Cardinality(StoredKeys \cup {ht_last'.key})
             IN  IF post_size * ht_load_factor_threshold.den
                        > ht_load_factor_threshold.num * ht_capacity
                 THEN ht_capacity' = 2 * ht_capacity /\ ht_resizes' = ht_resizes + 1
                 ELSE ht_capacity' = ht_capacity /\ ht_resizes' = ht_resizes
       /\ (/\ ht_initial_capacity = 4
           /\ ht_load_factor_threshold = [num |-> 3, den |-> 4]
           /\ ~ht_deleted')
          => /\ ht_size' <= 3 => (ht_capacity' = 4 /\ ht_resizes' = 0)
             /\ ht_size' = 4 => (ht_capacity' = 8 /\ ht_resizes' = 1)
             /\ (ht_size = 3 /\ ht_size' = 4)
                    => (ht_capacity = 4 /\ ht_capacity' = 8 /\ ht_last'.op = "insert")
      ]_vars

\* capacity 4, threshold 0.75, four distinct keys inserted, nothing deleted:
\* the fourth insert has just resized the table
C9_Witness ==
    /\ ht_initial_capacity = 4
    /\ ht_load_factor_threshold = [num |-> 3, den |-> 4]
    /\ ~ht_deleted
    /\ ht_last.op = "insert"
    /\ ht_size = 4
    /\ ht_capacity = 8
    /\ ht_resizes = 1

(***************************************************************************)
(* Graph                                                                   *)
(*                                                                         *)
(* The adjacency dict is a function from the current vertices to their     *)
(* neighbor lists; an edge weight is None or a number, written as a string.*)
(***************************************************************************)
GraphVertices == 1..MaxVertex

GraphWeights == {"None", "1.0"}

\* the graph object: the fields the operations read and write
Graph_self == [adjacency_list |-> g_adjacency_list, size |-> g_size]

\* x in list
Contains(list, x) == \E i \in 1..Len(list) : list[i] = x

\* [(v, w) for v, w in list if v != vertex]
Without(list, vertex) == SelectSeq(list, LAMBDA entry : entry[1] # vertex)

Graph_add_vertex(self, vertex) ==
    IF vertex \notin DOMAIN self.adjacency_list
    THEN [adjacency_list |-> [v \in DOMAIN self.adjacency_list \cup {vertex} |->
                                 IF v = vertex THEN <<>> ELSE self.adjacency_list[v]],
          size |-> self.size + 1]
    ELSE self

\* an add_edge that appends the edge to the source list only
Graph_add_edge_oneway(self, directed, from_vertex, to_vertex, weight) ==
    LET added == Graph_add_vertex(Graph_add_vertex(self, from_vertex), to_vertex)
    IN  IF ~Contains(added.adjacency_list[from_vertex], <<to_vertex, weight>>)
        THEN [added EXCEPT !.adjacency_list[from_vertex] = Append(@, <<to_vertex, weight>>)]
        ELSE added

Graph_add_edge(self, directed, from_vertex, to_vertex, weight) ==
    LET added   == Graph_add_vertex(Graph_add_vertex(self, from_vertex), to_vertex)
        forward == IF ~Contains(added.adjacency_list[from_vertex], <<to_vertex, weight>>)
                   THEN [added EXCEPT !.adjacency_list[from_vertex] =
                                          Append(@, <<to_vertex, weight>>)]
                   ELSE added
    IN  IF ~directed /\ ~Contains(forward.adjacency_list[to_vertex], <<from_vertex, weight>>)
        THEN [forward EXCEPT !.adjacency_list[to_vertex] = Append(@, <<from_vertex, weight>>)]
        ELSE forward

\* whether remove_edge returns True
Graph_remove_edge_removed(self, from_vertex, to_vertex) ==
    /\ from_vertex \in DOMAIN self.adjacency_list
    /\ Len(Without(self.adjacency_list[from_vertex], to_vertex))
           < Len(self.adjacency_list[from_vertex])

\* a remove_edge that leaves the reverse entries of an undirected edge
Graph_remove_edge_oneway(self, directed, from_vertex, to_vertex) ==
    IF from_vertex \notin DOMAIN self.adjacency_list THEN self
    ELSE [self EXCEPT !.adjacency_list[from_vertex] = Without(@, to_vertex)]

\* the graph after remove_edge(from_vertex, to_vertex)
Graph_remove_edge(self, directed, from_vertex, to_vertex) ==
    IF from_vertex \notin DOMAIN self.adjacency_list THEN self
    ELSE LET forward == [self EXCEPT !.adjacency_list[from_vertex] = Without(@, to_vertex)]
         IN  IF ~directed /\ to_vertex \in DOMAIN self.adjacency_list
             THEN [forward EXCEPT !.adjacency_list[to_vertex] = Without(@, from_vertex)]
             ELSE forward

\* the loop of remove_vertex over the copied neighbor list, from position n on
RECURSIVE RemoveEdgesTo(_, _, _, _, _)
RemoveEdgesTo(self, directed, vertex, neighbors, n) ==
    IF n > Len(neighbors) THEN self
    ELSE RemoveEdgesTo(Graph_remove_edge(self, directed, vertex, neighbors[n][1]),
                       directed, vertex, neighbors, n + 1)

\* a remove_vertex that only removes the edges that start at the vertex
Graph_remove_vertex_outgoing(self, directed, vertex) ==
    LET neighbors == self.adjacency_list[vertex]
        unlinked  == RemoveEdgesTo(self, directed, vertex, neighbors, 1)
    IN  [adjacency_list |-> [v \in DOMAIN unlinked.adjacency_list \ {vertex} |->
                                unlinked.adjacency_list[v]],
         size |-> self.size - 1]

\* the graph after remove_vertex(vertex), for a vertex of the graph
Graph_remove_vertex(self, directed, vertex) ==
    LET neighbors == self.adjacency_list[vertex]
        unlinked  == RemoveEdgesTo(self, directed, vertex, neighbors, 1)
        filtered  == [v \in DOMAIN unlinked.adjacency_list |->
                         Without(unlinked.adjacency_list[v], vertex)]
    IN  [adjacency_list |-> [v \in DOMAIN filtered \ {vertex} |-> filtered[v]],
         size |-> self.size - 1]

GraphCall(op, from_vertex, to_vertex, ret) ==
    [op |-> op, from_vertex |-> from_vertex, to_vertex |-> to_vertex, ret |-> ret]

NewGraph ==
    /\ g_directed \in BOOLEAN
    /\ g_adjacency_list = <<>>
    /\ g_size = 0
    /\ g_last = GraphCall("init", 0, 0, "None")

\* the state of the graph variables before any graph is constructed
IdleGraph ==
    /\ g_directed = FALSE
    /\ g_adjacency_list = <<>>
    /\ g_size = 0
    /\ g_last = GraphCall("init", 0, 0, "None")

\* the number of entries in all adjacency lists
RECURSIVE Entries(_, _)
Entries(adjacency_list, vertices) ==
    IF vertices = {} THEN 0
    ELSE LET v == CHOOSE x \in vertices : TRUE
         IN  Len(adjacency_list[v]) + Entries(adjacency_list, vertices \ {v})

Graph_set(self) ==
    /\ g_adjacency_list' = self.adjacency_list
    /\ g_size' = self.size

add_vertex(vertex) ==
    /\ Graph_set(Graph_add_vertex(Graph_self, vertex))
    /\ g_last' = GraphCall("add_vertex", vertex, 0, "None")
    /\ UNCHANGED <<g_directed, notGraph>>

remove_vertex(vertex) ==
    /\ IF vertex \notin DOMAIN g_adjacency_list
       THEN /\ g_last' = GraphCall("remove_vertex", vertex, 0, "False")
            /\ UNCHANGED <<g_adjacency_list, g_size>>
       ELSE /\ Graph_set(Graph_remove_vertex(Graph_self, g_directed, vertex))
            /\ g_last' = GraphCall("remove_vertex", vertex, 0, "True")
    /\ UNCHANGED <<g_directed, notGraph>>

add_edge(from_vertex, to_vertex, weight) ==
    /\ Entries(g_adjacency_list, DOMAIN g_adjacency_list) < MaxEntries
    /\ Graph_set(Graph_add_edge(Graph_self, g_directed, from_vertex, to_vertex, weight))
    /\ g_last' = GraphCall("add_edge", from_vertex, to_vertex, "None")
    /\ UNCHANGED <<g_directed, notGraph>>

remove_edge(from_vertex, to_vertex) ==
    /\ Graph_set(Graph_remove_edge(Graph_self, g_directed, from_vertex, to_vertex))
    /\ g_last' = GraphCall("remove_edge", from_vertex, to_vertex,
                           IF Graph_remove_edge_removed(Graph_self, from_vertex, to_vertex)
                           THEN "True" ELSE "False")
    /\ UNCHANGED <<g_directed, notGraph>>

NextGraph ==
    \/ \E vertex \in GraphVertices : add_vertex(vertex)
    \/ \E vertex \in GraphVertices : remove_vertex(vertex)
    \/ \E from_vertex \in GraphVertices, to_vertex \in GraphVertices, weight \in GraphWeights :
           add_edge(from_vertex, to_vertex, weight)
    \/ \E from_vertex \in GraphVertices, to_vertex \in GraphVertices :
           remove_edge(from_vertex, to_vertex)

(***************************************************************************)
(* Properties of the graph                                                 *)
(***************************************************************************)
\* the vertices that occur in the neighbor list of u
NeighborsOf(u) == {g_adjacency_list[u][i][1] : i \in 1..Len(g_adjacency_list[u])}

\* C10: in an undirected graph, after any sequence of add_vertex, add_edge,
\* remove_edge and remove_vertex calls, v is in u's neighbor list if and only
\* if u is in v's neighbor list; every vertex named in an add_edge call is a
\* vertex afterwards.
C10_UndirectedSymmetric ==
    /\ ~g_directed =>
           \A u \in DOMAIN g_adjacency_list : \A v \in NeighborsOf(u) :
               /\ v \in DOMAIN g_adjacency_list
               /\ u \in NeighborsOf(v)
    /\ g_last.op = "add_edge" =>
           {g_last.from_vertex, g_last.to_vertex} \subseteq DOMAIN g_adjacency_list

\* an undirected graph that still has an edge between two vertices right
\* after a remove_vertex or remove_edge call removed something
C10_Witness ==
    /\ ~g_directed
    /\ g_last.op \in {"remove_vertex", "remove_edge"}
    /\ g_last.ret = "True"
    /\ \E u \in DOMAIN g_adjacency_list : \E v \in NeighborsOf(u) : u # v

\* C11: after remove_vertex(v) has returned True, in a directed or undirected
\* graph, v is no vertex and is in no neighbor list; in every reachable state
\* each listed neighbor is a vertex and len(graph) is the number of vertices.
C11_RemoveVertexLeavesNoDanglingEdge ==
    /\ (g_last.op = "remove_vertex" /\ g_last.ret = "True") =>
           /\ g_last.from_vertex \notin DOMAIN g_adjacency_list
           /\ \A u \in DOMAIN g_adjacency_list : g_last.from_vertex \notin NeighborsOf(u)
    /\ \A u \in DOMAIN g_adjacency_list : NeighborsOf(u) \subseteq DOMAIN g_adjacency_list
    /\ g_size = Cardinality(DOMAIN g_adjacency_list)

\* a directed graph right after remove_vertex removed one of three vertices,
\* with an edge left between the other two
C11_Witness ==
    /\ g_directed
    /\ g_last.op = "remove_vertex"
    /\ g_last.ret = "True"
    /\ g_size = 2
    /\ \E u \in DOMAIN g_adjacency_list : \E v \in NeighborsOf(u) : u # v

(***************************************************************************)
(* BFS and DFS                                                             *)
(*                                                                         *)
(* execute(graph, start_vertex) stores the start vertex and appends each   *)
(* record the _run generator yields to self._steps.  One action is one     *)
(* resumption of the generator: the code from one yield to the next.       *)
(* tr_pc is the phase of the yield the generator is suspended at.  A step  *)
(* record keeps the fields the properties read; its data_structure is the  *)
(* graph object itself, not a copy.  An optional value is None or the      *)
(* one-element tuple of the value.                                         *)
(***************************************************************************)
\* a 'data_structure' entry that is the live container passed to execute
Live == [live |-> TRUE, data |-> <<>>]

\* what a 'data_structure' entry shows while the live container holds contents
Shown(data_structure, contents) ==
    IF data_structure.live THEN contents ELSE data_structure.data

TraversalEdges == GraphVertices \X GraphVertices \X GraphWeights

\* the sequences of at most n add_edge calls
RECURSIVE EdgeLists(_)
EdgeLists(n) ==
    IF n = 0 THEN {<<>>}
    ELSE LET shorter == EdgeLists(n - 1)
         IN  shorter \cup {Append(edges, e) : edges \in shorter, e \in TraversalEdges}

\* the graph after the first n add_edge calls of edges on an empty graph
RECURSIVE GraphOf(_, _, _)
GraphOf(directed, edges, n) ==
    IF n = 0 THEN [adjacency_list |-> <<>>, size |-> 0]
    ELSE Graph_add_edge(GraphOf(directed, edges, n - 1), directed,
                        edges[n][1], edges[n][2], edges[n][3])

\* the edges A-B, A-C, B-D, C-D, D-E with the vertices A..E written 1..5
ExampleEdges ==
    << <<1, 2, "None">>, <<1, 3, "None">>, <<2, 4, "None">>,
       <<3, 4, "None">>, <<4, 5, "None">> >>

ExampleGraph == GraphOf(FALSE, ExampleEdges, Len(ExampleEdges))

\* self._adjacency_list.get(vertex, []).copy()
get_neighbors(adjacency_list, vertex) ==
    IF vertex \in DOMAIN adjacency_list THEN adjacency_list[vertex] ELSE <<>>

\* the positions from index on of the neighbors that are not in visited
UnvisitedFrom(neighbors, index, visited) ==
    {i \in index..Len(neighbors) : neighbors[i][1] \notin visited}

\* the positions up to index of the neighbors that are not in visited
UnvisitedUpTo(neighbors, index, visited) ==
    {i \in 1..index : neighbors[i][1] \notin visited}

Least(S) == CHOOSE x \in S : \A y \in S : x <= y

Greatest(S) == CHOOSE x \in S : \A y \in S : x >= y

\* BFS_yield with a loop in execute that passes every step to the visualizer,
\* whatever the visualize argument is
BFS_yield_always_shown(visualize, steps, step_number, phase, current_vertex, visited, queue, traversal_order) ==
    LET step == [step_number     |-> step_number + 1,
                 phase           |-> phase,
                 data_structure  |-> Live,
                 current_vertex  |-> current_vertex,
                 visited         |-> visited,
                 queue           |-> queue,
                 traversal_order |-> traversal_order]
        received == IF steps = <<>> THEN <<>> ELSE tr_received
    IN  /\ tr_step_number' = step_number + 1
        /\ tr_steps' = Append(steps, step)
        /\ tr_received' = IF tr_visualizer THEN Append(received, step) ELSE received
        /\ tr_visited' = visited
        /\ tr_queue' = queue
        /\ tr_traversal_order' = traversal_order

\* step_number += 1 and the yield of BFS._run: the record is appended to the
\* list steps, the locals take the values the record shows
BFS_yield(visualize, steps, step_number, phase, current_vertex, visited, queue, traversal_order) ==
    LET step == [step_number     |-> step_number + 1,
                 phase           |-> phase,
                 data_structure  |-> Live,
                 current_vertex  |-> current_vertex,
                 visited         |-> visited,
                 queue           |-> queue,
                 traversal_order |-> traversal_order]
        received == IF steps = <<>> THEN <<>> ELSE tr_received
    IN  /\ tr_step_number' = step_number + 1
        /\ tr_steps' = Append(steps, step)
        /\ tr_received' = IF visualize /\ tr_visualizer
                          THEN Append(received, step)
                          ELSE received
        /\ tr_visited' = visited
        /\ tr_queue' = queue
        /\ tr_traversal_order' = traversal_order

\* the generator is resumed at the test of while queue: after the first
\* yield, or after a for loop that has no unvisited neighbor left
BFS_at_while ==
    \/ tr_pc = "initialization"
    \/ /\ tr_pc \in {"exploring", "discovery"}
       /\ UnvisitedFrom(tr_neighbors, tr_index, tr_visited) = {}

\* the step 'path' of DFS, which no property reads, is left out
DFS_yield(visualize, steps, step_number, phase, current_vertex, visited, stack, traversal_order) ==
    LET step == [step_number     |-> step_number + 1,
                 phase           |-> phase,
                 data_structure  |-> Live,
                 current_vertex  |-> current_vertex,
                 visited         |-> visited,
                 stack           |-> stack,
                 traversal_order |-> traversal_order]
        received == IF steps = <<>> THEN <<>> ELSE tr_received
    IN  /\ tr_step_number' = step_number + 1
        /\ tr_steps' = Append(steps, step)
        /\ tr_received' = IF visualize /\ tr_visualizer
                          THEN Append(received, step)
                          ELSE received
        /\ tr_visited' = visited
        /\ tr_stack' = stack
        /\ tr_traversal_order' = traversal_order

\* the generator is resumed at the test of while stack
DFS_at_while ==
    \/ tr_pc \in {"initialization", "backtracking"}
    \/ /\ tr_pc \in {"exploring", "discovery"}
       /\ UnvisitedUpTo(tr_neighbors, tr_index, tr_visited) = {}

\* an algorithm object and a graph built by add_edge calls, before execute
NewTraversal ==
    /\ tr_class \in {"BFS", "DFS"}
    /\ \/ \E directed \in BOOLEAN, edges \in EdgeLists(MaxEdges) :
              tr_adjacency_list = GraphOf(directed, edges, Len(edges)).adjacency_list
       \/ tr_adjacency_list = ExampleGraph.adjacency_list
    /\ tr_start_vertex = None
    /\ tr_pc = "idle"
    /\ tr_visited = {}
    /\ tr_queue = <<>>
    /\ tr_stack = <<>>
    /\ tr_traversal_order = <<>>
    /\ tr_current = None
    /\ tr_neighbors = <<>>
    /\ tr_index = 0
    /\ tr_step_number = 0
    /\ tr_steps = <<>>
    /\ tr_visualizer = FALSE
    /\ tr_visualize = TRUE
    /\ tr_received = <<>>

\* the state of the traversal variables when no algorithm object exists
IdleTraversal ==
    /\ tr_class = "none"
    /\ tr_adjacency_list = <<>>
    /\ tr_start_vertex = None
    /\ tr_pc = "idle"
    /\ tr_visited = {}
    /\ tr_queue = <<>>
    /\ tr_stack = <<>>
    /\ tr_traversal_order = <<>>
    /\ tr_current = None
    /\ tr_neighbors = <<>>
    /\ tr_index = 0
    /\ tr_step_number = 0
    /\ tr_steps = <<>>
    /\ tr_visualizer = FALSE
    /\ tr_visualize = TRUE
    /\ tr_received = <<>>

\* execute up to the first yield; with start_vertex None the generator
\* returns at once and execute returns the empty list
BFS_execute(start_vertex, visualize) ==
    /\ tr_class = "BFS"
    /\ tr_pc \in {"idle", "done"}
    /\ tr_start_vertex' = start_vertex
    /\ tr_visualize' = visualize
    /\ IF start_vertex = None
       THEN /\ tr_pc' = "done"
            /\ tr_steps' = <<>>
            /\ tr_received' = <<>>
            /\ tr_step_number' = 0
            /\ tr_visited' = {}
            /\ tr_queue' = <<>>
            /\ tr_traversal_order' = <<>>
       ELSE /\ tr_pc' = "initialization"
            /\ BFS_yield(visualize, <<>>, 0, "initialization", start_vertex,
                         {start_vertex[1]}, <<start_vertex[1]>>, <<>>)
    /\ tr_current' = None
    /\ tr_neighbors' = <<>>
    /\ tr_index' = 0
    /\ UNCHANGED <<tr_class, tr_adjacency_list, tr_stack, tr_visualizer, notTraversal>>

\* a dequeue that takes the newest vertex of the queue
BFS_process_newest ==
    /\ tr_class = "BFS"
    /\ BFS_at_while
    /\ tr_queue # <<>>
    /\ LET current == tr_queue[Len(tr_queue)]
       IN  /\ tr_current' = <<current>>
           /\ BFS_yield(tr_visualize, tr_steps, tr_step_number, "processing", <<current>>, tr_visited,
                        SubSeq(tr_queue, 1, Len(tr_queue) - 1),
                        Append(tr_traversal_order, current))
    /\ tr_pc' = "processing"
    /\ UNCHANGED <<tr_class, tr_adjacency_list, tr_visualizer, tr_visualize,
                 tr_start_vertex, tr_stack, tr_neighbors,
                   tr_index, notTraversal>>

\* current = queue.pop(0); traversal_order.append(current); yield
BFS_process ==
    /\ tr_class = "BFS"
    /\ BFS_at_while
    /\ tr_queue # <<>>
    /\ LET current == tr_queue[1]
       IN  /\ tr_current' = <<current>>
           /\ BFS_yield(tr_visualize, tr_steps, tr_step_number, "processing", <<current>>, tr_visited,
                        SubSeq(tr_queue, 2, Len(tr_queue)),
                        Append(tr_traversal_order, current))
    /\ tr_pc' = "processing"
    /\ UNCHANGED <<tr_class, tr_adjacency_list, tr_visualizer, tr_visualize,
                 tr_start_vertex, tr_stack, tr_neighbors,
                   tr_index, notTraversal>>

\* neighbors = graph.get_neighbors(current); yield
BFS_explore ==
    /\ tr_class = "BFS"
    /\ tr_pc = "processing"
    /\ tr_neighbors' = get_neighbors(tr_adjacency_list, tr_current[1])
    /\ tr_index' = 1
    /\ BFS_yield(tr_visualize, tr_steps, tr_step_number, "exploring", tr_current, tr_visited, tr_queue,
                 tr_traversal_order)
    /\ tr_pc' = "exploring"
    /\ UNCHANGED <<tr_class, tr_adjacency_list, tr_visualizer, tr_visualize,
                 tr_start_vertex, tr_stack, tr_current,
                   notTraversal>>

\* BFS_discover without visited.add(neighbor)
BFS_discover_unmarked ==
    /\ tr_class = "BFS"
    /\ tr_pc \in {"exploring", "discovery"}
    /\ UnvisitedFrom(tr_neighbors, tr_index, tr_visited) # {}
    /\ LET n        == Least(UnvisitedFrom(tr_neighbors, tr_index, tr_visited))
           neighbor == tr_neighbors[n][1]
       IN  /\ tr_index' = n + 1
           /\ BFS_yield(tr_visualize, tr_steps, tr_step_number, "discovery", tr_current,
                        tr_visited, Append(tr_queue, neighbor),
                        tr_traversal_order)
    /\ tr_pc' = "discovery"
    /\ UNCHANGED <<tr_class, tr_adjacency_list, tr_visualizer, tr_visualize,
                 tr_start_vertex, tr_stack, tr_current,
                   tr_neighbors, notTraversal>>

\* the for loop up to its next unvisited neighbor: visited.add(neighbor);
\* queue.append(neighbor); yield
BFS_discover ==
    /\ tr_class = "BFS"
    /\ tr_pc \in {"exploring", "discovery"}
    /\ UnvisitedFrom(tr_neighbors, tr_index, tr_visited) # {}
    /\ LET n        == Least(UnvisitedFrom(tr_neighbors, tr_index, tr_visited))
           neighbor == tr_neighbors[n][1]
       IN  /\ tr_index' = n + 1
           /\ BFS_yield(tr_visualize, tr_steps, tr_step_number, "discovery", tr_current,
                        tr_visited \cup {neighbor}, Append(tr_queue, neighbor),
                        tr_traversal_order)
    /\ tr_pc' = "discovery"
    /\ UNCHANGED <<tr_class, tr_adjacency_list, tr_visualizer, tr_visualize,
                 tr_start_vertex, tr_stack, tr_current,
                   tr_neighbors, notTraversal>>

\* a generator that stays suspended in front of its final step
BFS_complete_never ==
    /\ tr_class = "BFS"
    /\ BFS_at_while
    /\ tr_queue = <<>>
    /\ UNCHANGED vars

\* the final step; the generator is then exhausted and execute returns
BFS_complete ==
    /\ tr_class = "BFS"
    /\ BFS_at_while
    /\ tr_queue = <<>>
    /\ BFS_yield(tr_visualize, tr_steps, tr_step_number, "complete", None, tr_visited, <<>>,
                 tr_traversal_order)
    /\ tr_pc' = "done"
    /\ UNCHANGED <<tr_class, tr_adjacency_list, tr_visualizer, tr_visualize,
                 tr_start_vertex, tr_stack, tr_current,
                   tr_neighbors, tr_index, notTraversal>>

DFS_execute(start_vertex, visualize) ==
    /\ tr_class = "DFS"
    /\ tr_pc \in {"idle", "done"}
    /\ tr_start_vertex' = start_vertex
    /\ tr_visualize' = visualize
    /\ IF start_vertex = None
       THEN /\ tr_pc' = "done"
            /\ tr_steps' = <<>>
            /\ tr_received' = <<>>
            /\ tr_step_number' = 0
            /\ tr_visited' = {}
            /\ tr_stack' = <<>>
            /\ tr_traversal_order' = <<>>
       ELSE /\ tr_pc' = "initialization"
            /\ DFS_yield(visualize, <<>>, 0, "initialization", start_vertex,
                         {}, <<start_vertex[1]>>, <<>>)
    /\ tr_current' = None
    /\ tr_neighbors' = <<>>
    /\ tr_index' = 0
    /\ UNCHANGED <<tr_class, tr_adjacency_list, tr_queue, tr_visualizer, notTraversal>>

\* a pop that visits the vertex whether or not it is in visited
DFS_visit_again ==
    /\ tr_class = "DFS"
    /\ DFS_at_while
    /\ tr_stack # <<>>
    /\ LET current == tr_stack[Len(tr_stack)]
       IN  /\ tr_current' = <<current>>
           /\ DFS_yield(tr_visualize, tr_steps, tr_step_number, "visiting", <<current>>,
                        tr_visited \cup {current},
                        SubSeq(tr_stack, 1, Len(tr_stack) - 1),
                        Append(tr_traversal_order, current))
    /\ tr_pc' = "visiting"
    /\ UNCHANGED <<tr_class, tr_adjacency_list, tr_visualizer, tr_visualize,
                 tr_start_vertex, tr_queue, tr_neighbors,
                   tr_index, notTraversal>>

\* current = stack.pop() of a vertex not in visited: visited.add(current);
\* traversal_order.append(current); yield
DFS_visit ==
    /\ tr_class = "DFS"
    /\ DFS_at_while
    /\ tr_stack # <<>>
    /\ LET current == tr_stack[Len(tr_stack)]
       IN  /\ current \notin tr_visited
           /\ tr_current' = <<current>>
           /\ DFS_yield(tr_visualize, tr_steps, tr_step_number, "visiting", <<current>>,
                        tr_visited \cup {current},
                        SubSeq(tr_stack, 1, Len(tr_stack) - 1),
                        Append(tr_traversal_order, current))
    /\ tr_pc' = "visiting"
    /\ UNCHANGED <<tr_class, tr_adjacency_list, tr_visualizer, tr_visualize,
                 tr_start_vertex, tr_queue, tr_neighbors,
                   tr_index, notTraversal>>

\* DFS_backtrack that appends the popped vertex to traversal_order again
DFS_backtrack_recorded ==
    /\ tr_class = "DFS"
    /\ DFS_at_while
    /\ tr_stack # <<>>
    /\ LET current == tr_stack[Len(tr_stack)]
       IN  /\ current \in tr_visited
           /\ tr_current' = <<current>>
           /\ DFS_yield(tr_visualize, tr_steps, tr_step_number, "backtracking", <<current>>, tr_visited,
                        SubSeq(tr_stack, 1, Len(tr_stack) - 1),
                        Append(tr_traversal_order, current))
    /\ tr_pc' = "backtracking"
    /\ UNCHANGED <<tr_class, tr_adjacency_list, tr_visualizer, tr_visualize,
                 tr_start_vertex, tr_queue, tr_neighbors,
                   tr_index, notTraversal>>

\* current = stack.pop() of a vertex in visited: yield
DFS_backtrack ==
    /\ tr_class = "DFS"
    /\ DFS_at_while
    /\ tr_stack # <<>>
    /\ LET current == tr_stack[Len(tr_stack)]
       IN  /\ current \in tr_visited
           /\ tr_current' = <<current>>
           /\ DFS_yield(tr_visualize, tr_steps, tr_step_number, "backtracking", <<current>>, tr_visited,
                        SubSeq(tr_stack, 1, Len(tr_stack) - 1), tr_traversal_order)
    /\ tr_pc' = "backtracking"
    /\ UNCHANGED <<tr_class, tr_adjacency_list, tr_visualizer, tr_visualize,
                 tr_start_vertex, tr_queue, tr_neighbors,
                   tr_index, notTraversal>>

\* neighbors = graph.get_neighbors(current); yield
DFS_explore ==
    /\ tr_class = "DFS"
    /\ tr_pc = "visiting"
    /\ tr_neighbors' = get_neighbors(tr_adjacency_list, tr_current[1])
    /\ tr_index' = Len(get_neighbors(tr_adjacency_list, tr_current[1]))
    /\ DFS_yield(tr_visualize, tr_steps, tr_step_number, "exploring", tr_current, tr_visited, tr_stack,
                 tr_traversal_order)
    /\ tr_pc' = "exploring"
    /\ UNCHANGED <<tr_class, tr_adjacency_list, tr_visualizer, tr_visualize,
                 tr_start_vertex, tr_queue, tr_current,
                   notTraversal>>

\* the for loop over reversed(neighbors) up to its next unvisited neighbor:
\* stack.append(neighbor); yield
DFS_discover ==
    /\ tr_class = "DFS"
    /\ tr_pc \in {"exploring", "discovery"}
    /\ UnvisitedUpTo(tr_neighbors, tr_index, tr_visited) # {}
    /\ LET n        == Greatest(UnvisitedUpTo(tr_neighbors, tr_index, tr_visited))
           neighbor == tr_neighbors[n][1]
       IN  /\ tr_index' = n - 1
           /\ DFS_yield(tr_visualize, tr_steps, tr_step_number, "discovery", tr_current, tr_visited,
                        Append(tr_stack, neighbor), tr_traversal_order)
    /\ tr_pc' = "discovery"
    /\ UNCHANGED <<tr_class, tr_adjacency_list, tr_visualizer, tr_visualize,
                 tr_start_vertex, tr_queue, tr_current,
                   tr_neighbors, notTraversal>>

DFS_complete ==
    /\ tr_class = "DFS"
    /\ DFS_at_while
    /\ tr_stack = <<>>
    /\ DFS_yield(tr_visualize, tr_steps, tr_step_number, "complete", None, tr_visited, <<>>,
                 tr_traversal_order)
    /\ tr_pc' = "done"
    /\ UNCHANGED <<tr_class, tr_adjacency_list, tr_visualizer, tr_visualize,
                 tr_start_vertex, tr_queue, tr_current,
                   tr_neighbors, tr_index, notTraversal>>

\* the start vertices execute is called with: None, a vertex of the graph or
\* another vertex
StartVertices ==
    {None} \cup {<<vertex>> : vertex \in GraphVertices \cup DOMAIN tr_adjacency_list}

\* the resumptions of the generator by the loop of execute
TraversalStep ==
    \/ BFS_process
    \/ BFS_explore
    \/ BFS_discover
    \/ BFS_complete
    \/ DFS_visit
    \/ DFS_backtrack
    \/ DFS_explore
    \/ DFS_discover
    \/ DFS_complete

NextTraversal ==
    \/ \E start_vertex \in StartVertices , visualize \in BOOLEAN :
          BFS_execute(start_vertex, visualize)
    \/ \E start_vertex \in StartVertices , visualize \in BOOLEAN :
          DFS_execute(start_vertex, visualize)
    \/ TraversalStep

(***************************************************************************)
(* Properties of BFS and DFS                                               *)
(***************************************************************************)
\* the vertices in the neighbor list of u, none for a u that is no vertex
Successors(adjacency_list, u) ==
    {get_neighbors(adjacency_list, u)[i][1] :
         i \in 1..Len(get_neighbors(adjacency_list, u))}

\* the vertices reachable from the set seen along edges
RECURSIVE ReachableFrom(_, _)
ReachableFrom(adjacency_list, seen) ==
    LET further == seen \cup UNION {Successors(adjacency_list, u) : u \in seen}
    IN  IF further = seen THEN seen ELSE ReachableFrom(adjacency_list, further)

\* the number of edges on a shortest path from the set seen, which is at
\* distance d, to a vertex v reachable from it
RECURSIVE DistanceFrom(_, _, _, _)
DistanceFrom(adjacency_list, seen, v, d) ==
    IF v \in seen THEN d
    ELSE DistanceFrom(adjacency_list,
                      seen \cup UNION {Successors(adjacency_list, u) : u \in seen},
                      v, d + 1)

\* execute has returned for a start vertex that is a vertex of the graph
ReturnedFromVertex ==
    /\ tr_pc = "done"
    /\ tr_start_vertex # None
    /\ tr_start_vertex[1] \in DOMAIN tr_adjacency_list

\* the traversal_order of the last returned step
FinalOrder == tr_steps[Len(tr_steps)].traversal_order

\* C12: execute with a start vertex that is not a vertex of the graph returns
\* an empty step sequence.
C12_AbsentStartReturnsNoSteps ==
    (/\ tr_pc = "done"
     /\ tr_start_vertex # None
     /\ tr_start_vertex[1] \notin DOMAIN tr_adjacency_list) => tr_steps = <<>>

\* C13: when execute has returned for a start vertex of the graph, the final
\* traversal_order of BFS and of DFS holds every vertex reachable from the
\* start exactly once and no other vertex.
C13_VisitsReachableExactlyOnce ==
    ReturnedFromVertex =>
        /\ \A i, j \in 1..Len(FinalOrder) : FinalOrder[i] = FinalOrder[j] => i = j
        /\ SeqElems(FinalOrder) = ReachableFrom(tr_adjacency_list, {tr_start_vertex[1]})

\* a finished DFS that met an edge back to a visited vertex and left a vertex
\* of the graph unvisited
C13_Witness ==
    /\ ReturnedFromVertex
    /\ tr_class = "DFS"
    /\ \E i, j \in 1..Len(FinalOrder) :
           i < j /\ FinalOrder[i] \in Successors(tr_adjacency_list, FinalOrder[j])
    /\ DOMAIN tr_adjacency_list \ SeqElems(FinalOrder) # {}

\* the position in order of the first vertex that lists v as a neighbor
DiscoveredAt(order, v) ==
    CHOOSE i \in 1..Len(order) :
        /\ v \in Successors(tr_adjacency_list, order[i])
        /\ \A j \in 1..(i - 1) : v \notin Successors(tr_adjacency_list, order[j])

\* the first position of v in a neighbor list
FirstEntry(neighbors, v) ==
    CHOOSE i \in 1..Len(neighbors) :
        neighbors[i][1] = v /\ \A j \in 1..(i - 1) : neighbors[j][1] # v

\* C14: BFS visits the vertices in non-decreasing distance from the start;
\* of two vertices the one whose discovering vertex was visited first comes
\* first, and two vertices discovered from the same vertex come in the order
\* of its neighbor list; on the graph of the edges A-B, A-C, B-D, C-D, D-E
\* from A the order is A, B, C, D, E.
C14_BFSDistanceAndAdjacencyOrder ==
    (ReturnedFromVertex /\ tr_class = "BFS") =>
        /\ \A i, j \in 1..Len(FinalOrder) :
               i < j => DistanceFrom(tr_adjacency_list, {tr_start_vertex[1]}, FinalOrder[i], 0)
                          <= DistanceFrom(tr_adjacency_list, {tr_start_vertex[1]},
                                          FinalOrder[j], 0)
        /\ \A i, j \in 2..Len(FinalOrder) :
               i < j =>
                   LET pi == DiscoveredAt(FinalOrder, FinalOrder[i])
                       pj == DiscoveredAt(FinalOrder, FinalOrder[j])
                       neighbors == tr_adjacency_list[FinalOrder[pi]]
                   IN  \/ pi < pj
                       \/ /\ pi = pj
                          /\ FirstEntry(neighbors, FinalOrder[i])
                                 < FirstEntry(neighbors, FinalOrder[j])
        /\ (tr_adjacency_list = ExampleGraph.adjacency_list /\ tr_start_vertex = <<1>>)
               => FinalOrder = <<1, 2, 3, 4, 5>>

\* BFS has returned from A on the graph of the edges A-B, A-C, B-D, C-D, D-E
C14_Witness ==
    /\ ReturnedFromVertex
    /\ tr_class = "BFS"
    /\ tr_adjacency_list = ExampleGraph.adjacency_list
    /\ tr_start_vertex = <<1>>
    /\ Len(FinalOrder) = 5

\* the phase of the last step collected so far
LastPhase == IF tr_steps = <<>> THEN "none" ELSE tr_steps[Len(tr_steps)].phase

\* C15: once execute has started the generator, it reaches the 'complete'
\* step and returns, on every graph and for every start vertex.
C15_ExecuteTerminates ==
    (tr_pc \notin {"idle", "done"}) ~> (tr_pc = "done" /\ LastPhase = "complete")

\* execute has returned with the 'complete' step from a vertex that has two
\* parallel self-loops
C15_Witness ==
    /\ ReturnedFromVertex
    /\ LastPhase = "complete"
    /\ \E i, j \in 1..Len(tr_adjacency_list[tr_start_vertex[1]]) :
           /\ i # j
           /\ tr_adjacency_list[tr_start_vertex[1]][i][1] = tr_start_vertex[1]
           /\ tr_adjacency_list[tr_start_vertex[1]][j][1] = tr_start_vertex[1]

(***************************************************************************)
(* Sorting and searching on an Array                                       *)
(*                                                                         *)
(* An element of the Array is the pair <<key, tag>>: the algorithms        *)
(* compare elements by key alone, the tag tells apart elements that        *)
(* compare equal.  execute runs the _run generator to its end, so one      *)
(* action is one execute call.  A run is the record of what the generator  *)
(* holds while it runs: data (the local list the sorts work on), arr (the  *)
(* _data of the caller's Array), step_number, steps (the records yielded   *)
(* so far), writes (the contents of the Array after each Array.set) and    *)
(* raised (the exception that ended the run, "None" if none did).          *)
(* Indices are the 0-based indices of the code.                            *)
(***************************************************************************)
Key(element) == element[1]

At(data, index) == data[index + 1]

Put(data, index, value) == [data EXCEPT ![index + 1] = value]

\* a step's data_structure that is a new Array holding a copy of data
Copy(data) == [live |-> FALSE, data |-> data]

Min(a, b) == IF a < b THEN a ELSE b

ArrayKeys == 1..MaxElement

\* the list [<<keys[1], 1>>, ..., <<keys[n], n>>]
RECURSIVE Tagged(_, _)
Tagged(keys, n) ==
    IF n = 0 THEN <<>> ELSE Append(Tagged(keys, n - 1), <<keys[n], n>>)

ArrayInputs == UNION {{Tagged(keys, m) : keys \in [1..m -> ArrayKeys]} : m \in 0..MaxLen}

\* the sorted array of the binary search demonstration and its target
ExampleSortedArray == Tagged(<<10, 20, 30, 40, 50, 60, 70, 80, 90>>, 9)

ExampleTarget == <<50>>

\* the array of the quick sort example
ExampleArray == Tagged(<<5, 3, 8, 1, 9, 2>>, 6)

\* arr = data_structure; step_number = 0; data = arr.to_list()
NewRun(arr) ==
    [data |-> arr, arr |-> arr, step_number |-> 0, steps |-> <<>>,
     writes |-> <<>>, raised |-> "None"]

\* a step of a sort that records the number before it is incremented
Yield_unnumbered(self, description) ==
    [self EXCEPT !.step_number = @ + 1,
                 !.steps = Append(@, [step_number |-> self.step_number,
                                      description |-> description,
                                      data_structure |-> Copy(self.data)])]

\* step_number += 1; yield {..., "data_structure": Array(data.copy())}
Yield(self, description) ==
    [self EXCEPT !.step_number = @ + 1,
                 !.steps = Append(@, [step_number |-> self.step_number + 1,
                                      description |-> description,
                                      data_structure |-> Copy(self.data)])]

\* an exchange that loses the element at index i
Swap_overwriting(data, i, j) == Put(data, i, At(data, j))

\* data[i], data[j] = data[j], data[i]
Swap(data, i, j) == Put(Put(data, i, At(data, j)), j, At(data, i))

\* a set that validates the index and stores nothing
ArraySet_dropped(self, k) == [self EXCEPT !.writes = Append(@, self.arr)]

\* arr.set(k, data[k]): k is an index of the Array, so validate_index passes
ArraySet(self, k) ==
    [self EXCEPT !.arr = Put(@, k, At(self.data, k)),
                 !.writes = Append(@, Put(self.arr, k, At(self.data, k)))]

\* for k in range(n): arr.set(k, data[k])
RECURSIVE UpdateOriginal(_, _)
UpdateOriginal(self, k) ==
    IF k >= Len(self.data) THEN self
    ELSE UpdateOriginal(ArraySet(self, k), k + 1)

(***************************************************************************)
(* BubbleSort._run                                                         *)
(***************************************************************************)
\* an inner loop that also exchanges neighbours that compare equal
RECURSIVE BubbleSort_inner_equal(_, _, _, _)
BubbleSort_inner_equal(self, i, j, swapped) ==
    IF j >= Len(self.data) - i - 1 THEN <<self, swapped>>
    ELSE IF Key(At(self.data, j)) >= Key(At(self.data, j + 1))
    THEN BubbleSort_inner_equal(
             Yield([Yield(self, "comparing") EXCEPT !.data = Swap(@, j, j + 1)],
                   "swapping"), i, j + 1, TRUE)
    ELSE BubbleSort_inner_equal(Yield(self, "comparing"), i, j + 1, swapped)

\* for j in range(0, n - i - 1): the run and the flag swapped after the loop
RECURSIVE BubbleSort_inner(_, _, _, _)
BubbleSort_inner(self, i, j, swapped) ==
    IF j >= Len(self.data) - i - 1 THEN <<self, swapped>>
    ELSE IF Key(At(self.data, j)) > Key(At(self.data, j + 1))
    THEN BubbleSort_inner(
             Yield([Yield(self, "comparing") EXCEPT !.data = Swap(@, j, j + 1)],
                   "swapping"), i, j + 1, TRUE)
    ELSE BubbleSort_inner(Yield(self, "comparing"), i, j + 1, swapped)

\* for i in range(n), left by break after a pass without a swap
RECURSIVE BubbleSort_outer(_, _)
BubbleSort_outer(self, i) ==
    IF i >= Len(self.data) THEN self
    ELSE LET pass == BubbleSort_inner(self, i, 0, FALSE)
         IN IF pass[2] THEN BubbleSort_outer(UpdateOriginal(pass[1], 0), i + 1)
            ELSE UpdateOriginal(pass[1], 0)

(***************************************************************************)
(* InsertionSort._run                                                      *)
(***************************************************************************)
\* while j >= 0 and data[j] > key: the run and j after the loop
RECURSIVE InsertionSort_shift(_, _, _)
InsertionSort_shift(self, key, j) ==
    IF j >= 0 /\ Key(At(self.data, j)) > Key(key)
    THEN InsertionSort_shift(
             Yield([Yield(self, "comparing") EXCEPT !.data = Put(@, j + 1, At(@, j))],
                   "shifting"), key, j - 1)
    ELSE <<self, j>>

\* for i in range(1, n)
RECURSIVE InsertionSort_outer(_, _)
InsertionSort_outer(self, i) ==
    IF i >= Len(self.data) THEN self
    ELSE LET key == At(self.data, i)
             shifted == InsertionSort_shift(Yield(self, "selecting"), key, i - 1)
             inserted == Yield([shifted[1] EXCEPT !.data = Put(@, shifted[2] + 1, key)],
                               "inserted")
         IN InsertionSort_outer(UpdateOriginal(inserted, 0), i + 1)

(***************************************************************************)
(* SelectionSort._run                                                      *)
(***************************************************************************)
\* for j in range(i + 1, n): the run and min_idx after the loop
RECURSIVE SelectionSort_find(_, _, _)
SelectionSort_find(self, j, min_idx) ==
    IF j >= Len(self.data) THEN <<self, min_idx>>
    ELSE SelectionSort_find(Yield(self, "comparing"), j + 1,
                            IF Key(At(self.data, j)) < Key(At(self.data, min_idx))
                            THEN j ELSE min_idx)

\* for i in range(n): the swapping step is yielded before the exchange
RECURSIVE SelectionSort_outer(_, _)
SelectionSort_outer(self, i) ==
    IF i >= Len(self.data) THEN self
    ELSE LET found == SelectionSort_find(Yield(self, "finding minimum"), i + 1, i)
             placed == IF found[2] # i
                       THEN [Yield(found[1], "swapping") EXCEPT !.data = Swap(@, i, found[2])]
                       ELSE found[1]
         IN SelectionSort_outer(Yield(UpdateOriginal(placed, 0), "in place"), i + 1)

(***************************************************************************)
(* MergeSort: _run, _merge_sort, _merge.  The step number is the           *)
(* attribute self._step_number, which _run sets to 0.                      *)
(***************************************************************************)
\* the first while loop of _merge: <<run, i, j, k>> after the loop
RECURSIVE MergeSort_merge_compare(_, _, _, _, _, _)
MergeSort_merge_compare(self, left_arr, right_arr, i, j, k) ==
    IF i < Len(left_arr) /\ j < Len(right_arr)
    THEN IF Key(At(left_arr, i)) <= Key(At(right_arr, j))
         THEN MergeSort_merge_compare(
                  Yield(ArraySet([Yield(self, "comparing") EXCEPT
                                      !.data = Put(@, k, At(left_arr, i))], k), "placed"),
                  left_arr, right_arr, i + 1, j, k + 1)
         ELSE MergeSort_merge_compare(
                  Yield(ArraySet([Yield(self, "comparing") EXCEPT
                                      !.data = Put(@, k, At(right_arr, j))], k), "placed"),
                  left_arr, right_arr, i, j + 1, k + 1)
    ELSE <<self, i, j, k>>

\* while i < len(half): copy the remaining elements; <<run, k>> after the loop
RECURSIVE MergeSort_merge_remaining(_, _, _, _)
MergeSort_merge_remaining(self, half, i, k) ==
    IF i < Len(half)
    THEN MergeSort_merge_remaining(
             Yield(ArraySet([self EXCEPT !.data = Put(@, k, At(half, i))], k),
                   "copying remaining"), half, i + 1, k + 1)
    ELSE <<self, k>>

MergeSort_merge(self, left, mid, right) ==
    LET left_arr == SubSeq(self.data, left + 1, mid + 1)
        right_arr == SubSeq(self.data, mid + 2, right + 1)
        compared == MergeSort_merge_compare(Yield(self, "merging"),
                                            left_arr, right_arr, 0, 0, left)
        lefts == MergeSort_merge_remaining(compared[1], left_arr, compared[2], compared[4])
        rights == MergeSort_merge_remaining(lefts[1], right_arr, compared[3], lefts[2])
    IN Yield(rights[1], "merged")

RECURSIVE MergeSort_merge_sort(_, _, _)
MergeSort_merge_sort(self, left, right) ==
    IF left < right
    THEN LET mid == (left + right) \div 2
         IN MergeSort_merge(
                MergeSort_merge_sort(
                    MergeSort_merge_sort(Yield(self, "dividing"), left, mid),
                    mid + 1, right),
                left, mid, right)
    ELSE self

(***************************************************************************)
(* QuickSort: _run, _quick_sort, _partition (pivot = data[high])           *)
(***************************************************************************)
\* for j in range(low, high): <<run, i>> after the loop
RECURSIVE QuickSort_partition_loop(_, _, _, _, _)
QuickSort_partition_loop(self, pivot, high, i, j) ==
    IF j >= high THEN <<self, i>>
    ELSE IF Key(At(self.data, j)) <= Key(pivot)
    THEN IF i + 1 # j
         THEN QuickSort_partition_loop(
                  Yield(ArraySet(ArraySet([Yield(self, "comparing") EXCEPT
                                               !.data = Swap(@, i + 1, j)], i + 1), j),
                        "swapping"), pivot, high, i + 1, j + 1)
         ELSE QuickSort_partition_loop(Yield(Yield(self, "comparing"), "in position"),
                                       pivot, high, i + 1, j + 1)
    ELSE QuickSort_partition_loop(Yield(self, "comparing"), pivot, high, i, j + 1)

\* QuickSort_partition with pivot = data[low]
QuickSort_partition_first_pivot(self, low, high) ==
    LET looped == QuickSort_partition_loop(Yield(self, "selecting pivot"),
                                           At(self.data, low), high, low - 1, low)
        i == looped[2]
    IN IF i + 1 # high
       THEN <<Yield(ArraySet(ArraySet([looped[1] EXCEPT !.data = Swap(@, i + 1, high)],
                                      i + 1), high), "placing pivot"), i + 1>>
       ELSE <<Yield(looped[1], "pivot in position"), i + 1>>

\* <<run, pivot index>>
QuickSort_partition(self, low, high) ==
    LET looped == QuickSort_partition_loop(Yield(self, "selecting pivot"),
                                           At(self.data, high), high, low - 1, low)
        i == looped[2]
    IN IF i + 1 # high
       THEN <<Yield(ArraySet(ArraySet([looped[1] EXCEPT !.data = Swap(@, i + 1, high)],
                                      i + 1), high), "placing pivot"), i + 1>>
       ELSE <<Yield(looped[1], "pivot in position"), i + 1>>

RECURSIVE QuickSort_quick_sort(_, _, _)
QuickSort_quick_sort(self, low, high) ==
    IF low < high
    THEN LET partitioned == QuickSort_partition(self, low, high)
         IN QuickSort_quick_sort(
                QuickSort_quick_sort(partitioned[1], low, partitioned[2] - 1),
                partitioned[2] + 1, high)
    ELSE self

(***************************************************************************)
(* HeapSort: _run, _build_heap, _heapify                                   *)
(***************************************************************************)
RECURSIVE HeapSort_heapify(_, _, _)
HeapSort_heapify(self, heap_size, root_idx) ==
    LET left == 2 * root_idx + 1
        right == 2 * root_idx + 2
        with_left == IF left < heap_size THEN Yield(self, "comparing left") ELSE self
        largest_left ==
            IF left < heap_size /\ Key(At(self.data, left)) > Key(At(self.data, root_idx))
            THEN left ELSE root_idx
        with_right == IF right < heap_size THEN Yield(with_left, "comparing right")
                      ELSE with_left
        largest ==
            IF right < heap_size
               /\ Key(At(self.data, right)) > Key(At(self.data, largest_left))
            THEN right ELSE largest_left
    IN IF largest # root_idx
       THEN HeapSort_heapify(
                Yield(ArraySet(ArraySet([with_right EXCEPT
                                             !.data = Swap(@, root_idx, largest)],
                                        root_idx), largest), "swapping"),
                heap_size, largest)
       ELSE Yield(with_right, "heap property satisfied")

\* for i in range(n // 2 - 1, -1, -1)
RECURSIVE HeapSort_build_loop(_, _, _)
HeapSort_build_loop(self, n, i) ==
    IF i < 0 THEN self
    ELSE HeapSort_build_loop(HeapSort_heapify(self, n, i), n, i - 1)

HeapSort_build_heap(self, n) ==
    Yield(HeapSort_build_loop(Yield(self, "building heap"), n, n \div 2 - 1), "heap built")

\* for i in range(n - 1, 0, -1)
RECURSIVE HeapSort_extract(_, _)
HeapSort_extract(self, i) ==
    IF i < 1 THEN self
    ELSE HeapSort_extract(
             HeapSort_heapify(
                 Yield(ArraySet(ArraySet([self EXCEPT !.data = Swap(@, 0, i)], 0), i),
                       "moving root"), i, 0),
             i - 1)

(***************************************************************************)
(* The searches.  execute(data_structure, target) stores the target in     *)
(* self._target; every step's data_structure is the Array itself.  A       *)
(* target is None or <<key>>.                                              *)
(***************************************************************************)
\* step_number += 1; yield {..., 'data_structure': arr, 'current_index': ..., 'found_index': ...}
SearchYield(self, description, current_index, found_index) ==
    [self EXCEPT !.step_number = @ + 1,
                 !.steps = Append(@, [step_number |-> self.step_number + 1,
                                      description |-> description,
                                      data_structure |-> Live,
                                      current_index |-> current_index,
                                      found_index |-> found_index])]

\* for i in range(len(arr)) and the step after the loop
RECURSIVE LinearSearch_scan(_, _, _)
LinearSearch_scan(self, target, i) ==
    IF i >= Len(self.arr) THEN SearchYield(self, "not found", -1, -1)
    ELSE IF Key(At(self.arr, i)) = target
    THEN SearchYield(SearchYield(self, "checking", i, -1), "found", i, i)
    ELSE LinearSearch_scan(SearchYield(self, "checking", i, -1), target, i + 1)

\* BinarySearch_loop with mid = right
RECURSIVE BinarySearch_loop_mid_right(_, _, _, _)
BinarySearch_loop_mid_right(self, target, left, right) ==
    IF left <= right
    THEN LET mid == right
             checked == SearchYield(self, "checking middle", mid, -1)
         IN IF Key(At(self.arr, mid)) = target
            THEN SearchYield(checked, "found", mid, mid)
            ELSE IF Key(At(self.arr, mid)) < target
            THEN BinarySearch_loop_mid_right(SearchYield(checked, "right half", mid, -1),
                                             target, mid + 1, right)
            ELSE BinarySearch_loop_mid_right(SearchYield(checked, "left half", mid, -1),
                                             target, left, mid - 1)
    ELSE SearchYield(self, "not found", -1, -1)

\* while left <= right and the step after the loop
RECURSIVE BinarySearch_loop(_, _, _, _)
BinarySearch_loop(self, target, left, right) ==
    IF left <= right
    THEN LET mid == (left + right) \div 2
             checked == SearchYield(self, "checking middle", mid, -1)
         IN IF Key(At(self.arr, mid)) = target
            THEN SearchYield(checked, "found", mid, mid)
            ELSE IF Key(At(self.arr, mid)) < target
            THEN BinarySearch_loop(SearchYield(checked, "right half", mid, -1),
                                   target, mid + 1, right)
            ELSE BinarySearch_loop(SearchYield(checked, "left half", mid, -1),
                                   target, left, mid - 1)
    ELSE SearchYield(self, "not found", -1, -1)

\* while left <= right and the step after the loop
RECURSIVE TernarySearch_loop(_, _, _, _)
TernarySearch_loop(self, target, left, right) ==
    IF left <= right
    THEN LET mid1 == left + (right - left) \div 3
             mid2 == right - (right - left) \div 3
             first == SearchYield(self, "checking first third", mid1, -1)
             second == SearchYield(first, "checking second third", mid2, -1)
         IN IF Key(At(self.arr, mid1)) = target
            THEN SearchYield(first, "found", mid1, mid1)
            ELSE IF Key(At(self.arr, mid2)) = target
            THEN SearchYield(second, "found", mid2, mid2)
            ELSE IF target < Key(At(self.arr, mid1))
            THEN TernarySearch_loop(SearchYield(second, "first third", mid1, -1),
                                    target, left, mid1 - 1)
            ELSE IF target > Key(At(self.arr, mid2))
            THEN TernarySearch_loop(SearchYield(second, "third third", mid2, -1),
                                    target, mid2 + 1, right)
            ELSE TernarySearch_loop(SearchYield(second, "middle third", -1, -1),
                                    target, mid1 + 1, mid2 - 1)
    ELSE SearchYield(self, "not found", -1, -1)

\* while i < n and arr[i] <= target: <<run, i, whether the target was found>>
RECURSIVE ExponentialSearch_range(_, _, _)
ExponentialSearch_range(self, target, i) ==
    IF i < Len(self.arr) /\ Key(At(self.arr, i)) <= target
    THEN IF Key(At(self.arr, i)) = target
         THEN <<SearchYield(SearchYield(self, "expanding range", i, -1), "found", i, i),
                i, TRUE>>
         ELSE ExponentialSearch_range(SearchYield(self, "expanding range", i, -1),
                                      target, i * 2)
    ELSE <<self, i, FALSE>>

\* the binary search in the range found, and the step after the loop
RECURSIVE ExponentialSearch_binary(_, _, _, _)
ExponentialSearch_binary(self, target, left, right) ==
    IF left <= right
    THEN LET mid == (left + right) \div 2
             checked == SearchYield(self, "checking middle", mid, -1)
         IN IF Key(At(self.arr, mid)) = target
            THEN SearchYield(checked, "found", mid, mid)
            ELSE IF Key(At(self.arr, mid)) < target
            THEN ExponentialSearch_binary(SearchYield(checked, "right half", mid, -1),
                                          target, mid + 1, right)
            ELSE ExponentialSearch_binary(SearchYield(checked, "left half", mid, -1),
                                          target, left, mid - 1)
    ELSE SearchYield(self, "not found", -1, -1)

(***************************************************************************)
(* The algorithm object, the Array and execute                             *)
(***************************************************************************)
SortClasses ==
    {"BubbleSort", "InsertionSort", "SelectionSort", "MergeSort", "QuickSort", "HeapSort"}

SearchClasses == {"LinearSearch", "BinarySearch", "TernarySearch", "ExponentialSearch"}

\* the classes whose __init__ sets self._step_number = 0
NumberedClasses == {"MergeSort", "QuickSort", "HeapSort"}

\* None, the keys of the elements, a key below and a key above all of them,
\* and the target of the demonstration
SearchTargets == {None, ExampleTarget} \cup {<<key>> : key \in 0..MaxElement + 1}

\* an algorithm object and an Array(initial_data), before execute
NewArrayAlgorithm ==
    /\ alg_class \in SortClasses \cup SearchClasses
    /\ arr_data \in ArrayInputs \cup {ExampleSortedArray, ExampleArray}
    /\ alg_step_number = IF alg_class \in NumberedClasses THEN <<0>> ELSE None
    /\ alg_steps = <<>>
    /\ alg_last = [op |-> "init", input |-> <<>>, target |-> None, writes |-> <<>>,
                   raised |-> "None", executions |-> 0]

\* the state of the variables when no array algorithm object exists
IdleArrayAlgorithm ==
    /\ alg_class = "none"
    /\ arr_data = <<>>
    /\ alg_step_number = None
    /\ alg_steps = <<>>
    /\ alg_last = [op |-> "init", input |-> <<>>, target |-> None, writes |-> <<>>,
                   raised |-> "None", executions |-> 0]

\* self._steps = []; for step in self._run(data_structure): self._steps.append(step)
Execute(run, target) ==
    /\ alg_last.executions < MaxExecutions
    /\ arr_data' = run.arr
    /\ alg_steps' = run.steps
    /\ alg_step_number' = IF alg_class \in NumberedClasses THEN <<run.step_number>>
                          ELSE alg_step_number
    /\ alg_last' = [op |-> "execute", input |-> arr_data, target |-> target,
                    writes |-> run.writes, raised |-> run.raised,
                    executions |-> alg_last.executions + 1]
    /\ UNCHANGED <<alg_class, notArrayAlgorithm>>

BubbleSort_execute ==
    /\ alg_class = "BubbleSort"
    /\ Execute(Yield(BubbleSort_outer(NewRun(arr_data), 0), "sorted"),
               None)

InsertionSort_execute ==
    /\ alg_class = "InsertionSort"
    /\ Execute(Yield(InsertionSort_outer(NewRun(arr_data), 1), "sorted"),
               None)

SelectionSort_execute ==
    /\ alg_class = "SelectionSort"
    /\ Execute(Yield(SelectionSort_outer(NewRun(arr_data), 0), "sorted"),
               None)

MergeSort_execute ==
    /\ alg_class = "MergeSort"
    /\ Execute(Yield(MergeSort_merge_sort(NewRun(arr_data), 0, Len(arr_data) - 1), "sorted"),
               None)

QuickSort_execute ==
    /\ alg_class = "QuickSort"
    /\ Execute(Yield(QuickSort_quick_sort(NewRun(arr_data), 0, Len(arr_data) - 1), "sorted"),
               None)

HeapSort_execute ==
    /\ alg_class = "HeapSort"
    /\ Execute(Yield(HeapSort_extract(HeapSort_build_heap(NewRun(arr_data), Len(arr_data)),
                                       Len(arr_data) - 1), "sorted"),
               None)

\* without a target the first element is searched for, and nothing in an empty array
LinearSearch_execute(target) ==
    /\ alg_class = "LinearSearch"
    /\ Execute(IF target = None
               THEN IF Len(arr_data) > 0 THEN LinearSearch_scan(NewRun(arr_data), Key(At(arr_data, 0)), 0)
                    ELSE NewRun(arr_data)
               ELSE LinearSearch_scan(NewRun(arr_data), target[1], 0),
               target)

BinarySearch_execute(target) ==
    /\ alg_class = "BinarySearch"
    /\ Execute(IF target = None THEN NewRun(arr_data)
               ELSE BinarySearch_loop(SearchYield(NewRun(arr_data), "initializing", -1, -1),
                                      target[1], 0, Len(arr_data) - 1),
               target)

TernarySearch_execute(target) ==
    /\ alg_class = "TernarySearch"
    /\ Execute(IF target = None THEN NewRun(arr_data)
               ELSE TernarySearch_loop(SearchYield(NewRun(arr_data), "initializing", -1, -1),
                                       target[1], 0, Len(arr_data) - 1),
               target)

\* arr[0] is read after the first step: on an empty Array Array.get raises
\* IndexError out of execute, with that one step in self._steps
ExponentialSearch_execute(target) ==
    /\ alg_class = "ExponentialSearch"
    /\ Execute(IF target = None THEN NewRun(arr_data)
               ELSE IF Len(arr_data) = 0
               THEN [SearchYield(NewRun(arr_data), "initializing", -1, -1) EXCEPT !.raised = "IndexError"]
               ELSE IF Key(At(arr_data, 0)) = target[1]
               THEN SearchYield(SearchYield(NewRun(arr_data), "initializing", -1, -1), "found", 0, 0)
               ELSE LET ranged == ExponentialSearch_range(
                                      SearchYield(NewRun(arr_data), "initializing", -1, -1), target[1], 1)
                    IN IF ranged[3] THEN ranged[1]
                       ELSE ExponentialSearch_binary(
                                SearchYield(ranged[1], "range found", -1, -1), target[1],
                                ranged[2] \div 2, Min(ranged[2], Len(arr_data) - 1)),
               target)

NextArrayAlgorithm ==
    \/ BubbleSort_execute
    \/ InsertionSort_execute
    \/ SelectionSort_execute
    \/ MergeSort_execute
    \/ QuickSort_execute
    \/ HeapSort_execute
    \/ \E target \in SearchTargets : LinearSearch_execute(target)
    \/ \E target \in SearchTargets : BinarySearch_execute(target)
    \/ \E target \in SearchTargets : TernarySearch_execute(target)
    \/ \E target \in SearchTargets : ExponentialSearch_execute(target)

(***************************************************************************)
(* Properties of the sorts                                                 *)
(***************************************************************************)
\* execute of a sort has returned
SortReturned == alg_class \in SortClasses /\ alg_last.op = "execute"

Ascending(data) == \A i \in 1..Len(data) - 1 : Key(data[i]) <= Key(data[i + 1])

Occurrences(data, element) == Cardinality({i \in 1..Len(data) : data[i] = element})

Permutation(a, b) ==
    /\ Len(a) = Len(b)
    /\ \A i \in 1..Len(a) : Occurrences(a, a[i]) = Occurrences(b, a[i])

HasEqualKeys(data) ==
    \E i, j \in 1..Len(data) : i # j /\ Key(data[i]) = Key(data[j])

\* C16: after execute of any of the six sorts the caller's Array holds the
\* elements of the input (each as often as in the input) in ascending order
C16_SortLeavesSortedPermutation ==
    SortReturned => /\ Ascending(arr_data)
                    /\ Permutation(arr_data, alg_last.input)

\* heap sort has returned from an unsorted input of at least three elements
\* two of which compare equal
C16_Witness ==
    /\ SortReturned
    /\ alg_class = "HeapSort"
    /\ Len(alg_last.input) >= 3
    /\ HasEqualKeys(alg_last.input)
    /\ ~Ascending(alg_last.input)

PositionIn(data, element) == CHOOSE p \in 1..Len(data) : data[p] = element

\* C17: after execute of BubbleSort, InsertionSort or MergeSort, elements
\* that compare equal stand in the same relative order as in the input
C17_StableSorts ==
    (SortReturned /\ alg_class \in {"BubbleSort", "InsertionSort", "MergeSort"}) =>
        \A i, j \in 1..Len(arr_data) :
            (i < j /\ Key(arr_data[i]) = Key(arr_data[j])) =>
                PositionIn(alg_last.input, arr_data[i]) < PositionIn(alg_last.input, arr_data[j])

\* bubble sort has returned from an input in which two elements that compare
\* equal stand before a smaller one
C17_Witness ==
    /\ SortReturned
    /\ alg_class = "BubbleSort"
    /\ \E i, j, k \in 1..Len(alg_last.input) :
           /\ i < j
           /\ j < k
           /\ Key(alg_last.input[i]) = Key(alg_last.input[j])
           /\ Key(alg_last.input[k]) < Key(alg_last.input[i])

\* the writes from the w-th on occur, in order, as snapshots of the steps from
\* the s-th on (writes that leave the same contents may share a step)
RECURSIVE Replayed(_, _, _, _)
Replayed(writes, w, steps, s) ==
    IF w > Len(writes) THEN TRUE
    ELSE IF s > Len(steps) THEN FALSE
    ELSE IF steps[s].data_structure.data = writes[w] THEN Replayed(writes, w + 1, steps, s)
    ELSE Replayed(writes, w, steps, s + 1)

\* C18: every contents the caller's Array takes during execute of a sort,
\* after each single write to it, occurs in order as the snapshot of a
\* returned step.
C18_SnapshotsReplayEveryWrite ==
    SortReturned => Replayed(alg_last.writes, 1, alg_steps, 1)

(***************************************************************************)
(* Properties of every algorithm's returned steps                          *)
(***************************************************************************)
\* execute of an array algorithm has returned a non-empty list
ArrayStepsReturned ==
    /\ alg_last.op = "execute"
    /\ alg_last.raised = "None"
    /\ alg_steps # <<>>

\* execute of BFS or DFS has returned a non-empty list
TraversalStepsReturned == tr_pc = "done" /\ tr_steps # <<>>

\* C19: when execute returns a non-empty list, the last step's snapshot shows
\* the contents the live container has at that moment (sorts, searches, BFS
\* and DFS).
C19_LastSnapshotIsEndState ==
    /\ ArrayStepsReturned =>
           Shown(alg_steps[Len(alg_steps)].data_structure, arr_data) = arr_data
    /\ TraversalStepsReturned =>
           Shown(tr_steps[Len(tr_steps)].data_structure, tr_adjacency_list)
               = tr_adjacency_list

\* selection sort has returned from an unsorted input: its last step holds a
\* copy, and the Array was written
C19_Witness ==
    /\ ArrayStepsReturned
    /\ alg_class = "SelectionSort"
    /\ ~Ascending(alg_last.input)
    /\ alg_last.writes # <<>>
    /\ ~alg_steps[Len(alg_steps)].data_structure.live

Numbered(steps) == \A k \in 1..Len(steps) : steps[k].step_number = k

\* C20: in every list execute returns the k-th record has step_number k, for
\* every algorithm, through the recursive producers of merge, quick and heap
\* sort and on a second execute of the same object.
C20_StepNumbersCountFromOne ==
    /\ ArrayStepsReturned => Numbered(alg_steps)
    /\ TraversalStepsReturned => Numbered(tr_steps)

\* the second execute of one merge sort object has returned, and its first
\* execute had merged at least three elements
C20_Witness ==
    /\ ArrayStepsReturned
    /\ alg_class = "MergeSort"
    /\ alg_last.executions = 2
    /\ Len(arr_data) >= 3
    /\ alg_step_number = <<Len(alg_steps)>>

(***************************************************************************)
(* The caller changes the container after execute has returned, while it   *)
(* still holds the returned step records                                   *)
(***************************************************************************)
\* the values a caller stores: elements no input holds
NewElements == {<<key, 0>> : key \in ArrayKeys}

\* arr.set(index, value) on the Array that was passed to execute
Array_set_after_execute(index, value) ==
    /\ alg_last.op = "execute"
    /\ index \in 0..Len(arr_data) - 1
    /\ arr_data' = Put(arr_data, index, value)
    /\ alg_last' = [alg_last EXCEPT !.op = "set"]
    /\ UNCHANGED <<alg_class, alg_step_number, alg_steps, notArrayAlgorithm>>

\* graph.add_vertex(vertex) on the graph that was passed to execute
Graph_add_vertex_after_execute(vertex) ==
    /\ tr_pc = "done"
    /\ vertex \notin DOMAIN tr_adjacency_list
    /\ tr_adjacency_list' =
           Graph_add_vertex([adjacency_list |-> tr_adjacency_list, size |-> 0],
                            vertex).adjacency_list
    /\ UNCHANGED <<tr_class, tr_visualizer, tr_visualize, tr_received,
                   tr_start_vertex, tr_pc, tr_visited, tr_queue, tr_stack,
                   tr_traversal_order, tr_current, tr_neighbors, tr_index,
                   tr_step_number, tr_steps, notTraversal>>

NextHeldSteps ==
    \/ NextArrayAlgorithm
    \/ NextTraversal
    \/ \E index \in 0..MaxLen, value \in NewElements : Array_set_after_execute(index, value)
    \/ \E vertex \in GraphVertices : Graph_add_vertex_after_execute(vertex)

\* C21: a step record that was returned keeps showing the same contents when
\* the live container is changed afterwards (sorts, searches, BFS and DFS).
C21_HeldSnapshotsKeepWhatTheyShow ==
    [][/\ alg_steps' = alg_steps =>
              \A k \in 1..Len(alg_steps) :
                  Shown(alg_steps[k].data_structure, arr_data')
                      = Shown(alg_steps[k].data_structure, arr_data)
       /\ tr_steps' = tr_steps =>
              \A k \in 1..Len(tr_steps) :
                  Shown(tr_steps[k].data_structure, tr_adjacency_list')
                      = Shown(tr_steps[k].data_structure, tr_adjacency_list)]_vars

(***************************************************************************)
(* The visualizer of an algorithm                                          *)
(***************************************************************************)

\* attach_visualizer, called between two execute calls
attach_visualizer ==
    /\ tr_class # "none"
    /\ tr_pc \in {"idle", "done"}
    /\ ~tr_visualizer
    /\ tr_visualizer' = TRUE
    /\ UNCHANGED <<tr_class, tr_adjacency_list, tr_start_vertex, tr_pc, tr_visited,
                   tr_queue, tr_stack, tr_traversal_order, tr_current, tr_neighbors,
                   tr_index, tr_step_number, tr_steps, tr_visualize, tr_received,
                   notTraversal>>

NextObserved ==
    \/ NextTraversal
    \/ attach_visualizer

\* C22: whenever execute starts or its generator is resumed, the records the
\* visualizer has received are exactly the records of self._steps so far, in
\* the same order, if visualize is true and a visualizer is attached, and
\* none otherwise; so each record is received before the next one is produced
C22_VisualizerReceivesEachStepInOrder ==
    [][tr_visualizer' = tr_visualizer =>
           tr_received' = IF tr_visualize' /\ tr_visualizer THEN tr_steps' ELSE <<>>]_vars

C22_Witness ==
    /\ tr_pc = "done"
    /\ tr_visualizer
    /\ tr_visualize
    /\ Len(tr_steps) > 3
    /\ tr_received = tr_steps

(***************************************************************************)
(* Properties of the searches on sorted arrays                             *)
(***************************************************************************)
\* execute(arr, target) of a search that needs a sorted array has been called
\* with a sorted array and a target
SortedSearchCalled ==
    /\ alg_class \in {"BinarySearch", "TernarySearch", "ExponentialSearch"}
    /\ alg_last.op = "execute"
    /\ alg_last.target # None
    /\ Ascending(alg_last.input)

\* C23: on a sorted array (empty and with duplicates included) BinarySearch,
\* TernarySearch and ExponentialSearch return without raising; the last step
\* has a found_index i with array[i] == target if the target is in the array
\* and is the not-found step with found_index -1 if it is not
C23_SortedSearchFindsOrReportsAbsent ==
    SortedSearchCalled =>
        /\ alg_last.raised = "None"
        /\ alg_steps # <<>>
        /\ LET last == alg_steps[Len(alg_steps)]
               input == alg_last.input
           IN IF \E i \in 1..Len(input) : Key(input[i]) = alg_last.target[1]
              THEN /\ last.found_index \in 0..Len(input) - 1
                   /\ Key(At(input, last.found_index)) = alg_last.target[1]
              ELSE /\ last.found_index = -1
                   /\ last.description = "not found"

(***************************************************************************)
(* The worked examples                                                     *)
(***************************************************************************)
\* BinarySearch().execute(Array([10, 20, ..., 90]), 50) has returned
ExampleSearched ==
    /\ alg_class = "BinarySearch"
    /\ alg_last.op = "execute"
    /\ alg_last.input = ExampleSortedArray
    /\ alg_last.target = ExampleTarget

\* the positions in steps of the steps that check a middle element
MidpointChecks(steps) == {k \in 1..Len(steps) : steps[k].description = "checking middle"}

\* C24 as stated: binary search for 50 in [10, 20, ..., 90] makes exactly two
\* midpoint checks before it reports the target found
C24_ExampleTakesTwoMidpointChecks ==
    ExampleSearched =>
        /\ Cardinality(MidpointChecks(alg_steps)) = 2
        /\ alg_steps[Len(alg_steps)].description = "found"

\* C24 amended: with mid = (left + right) // 2 the first midpoint is index 4,
\* which holds 50, so exactly one midpoint check is made and the next step
\* reports the target found at index 4
C24_ExampleTakesOneMidpointCheck ==
    ExampleSearched =>
        /\ MidpointChecks(alg_steps) = {2}
        /\ alg_steps[2].current_index = (0 + 8) \div 2
        /\ Len(alg_steps) = 3
        /\ alg_steps[3].description = "found"
        /\ alg_steps[3].found_index = 4
        /\ Key(At(alg_last.input, 4)) = ExampleTarget[1]

C24_Witness ==
    /\ ExampleSearched
    /\ alg_last.raised = "None"
    /\ Len(alg_steps) = 3

\* QuickSort().execute(Array([5, 3, 8, 1, 9, 2])) has returned
ExampleSorted ==
    /\ alg_class = "QuickSort"
    /\ alg_last.op = "execute"
    /\ alg_last.input = ExampleArray

\* the first step that puts a pivot in its place, which ends the first
\* partition pass
FirstPivotPlaced(steps) ==
    Least({k \in 1..Len(steps) : steps[k].description \in {"placing pivot", "pivot in position"}})

\* the index the first partition pass returns: the ranges of the two
\* recursive calls are [0, pivot_idx - 1] and [pivot_idx + 1, 5]
FirstPivotIndex == QuickSort_partition(NewRun(ExampleArray), 0, Len(ExampleArray) - 1)[2]

\* C25 as stated: the first pivot is 2, the last element; after the first
\* partition pass 2 is at index 0, the left recursive call is on an empty
\* range and the right one on the remaining 5 elements
C25_ExamplePivotEndsAtIndexZero ==
    ExampleSorted =>
        LET placed == alg_steps[FirstPivotPlaced(alg_steps)].data_structure.data
        IN /\ Key(At(alg_last.input, Len(alg_last.input) - 1)) = 2
           /\ Key(At(placed, FirstPivotIndex)) = 2
           /\ FirstPivotIndex = 0
           /\ (FirstPivotIndex - 1) - 0 + 1 = 0
           /\ 5 - (FirstPivotIndex + 1) + 1 = 5

\* C25 amended: the first pivot is 2, the last element; the first partition
\* pass moves 1 to index 0 and 2 to index 1, so the left recursive call is on
\* the one-element range [0, 0] and the right one on the 4 elements of [2, 5]
C25_ExamplePivotEndsAtIndexOne ==
    ExampleSorted =>
        LET placed == alg_steps[FirstPivotPlaced(alg_steps)].data_structure.data
        IN /\ Key(At(alg_last.input, Len(alg_last.input) - 1)) = 2
           /\ Key(At(placed, FirstPivotIndex)) = 2
           /\ FirstPivotIndex = 1
           /\ [i \in 1..Len(placed) |-> Key(placed[i])] = <<1, 2, 8, 5, 9, 3>>
           /\ (FirstPivotIndex - 1) - 0 + 1 = 1
           /\ 5 - (FirstPivotIndex + 1) + 1 = 4
           /\ Ascending(arr_data)

C25_Witness ==
    /\ ExampleSorted
    /\ alg_last.raised = "None"
    /\ FirstPivotPlaced(alg_steps) = 8

(***************************************************************************)
(* The sequence containers: Array (array.py) and LinkedList                *)
(* (linked_list.py).  An index is 0-based; the chain of nodes of a         *)
(* LinkedList is the sequence of its values from self._head on.            *)
(***************************************************************************)
SequenceItems == 1..MaxItem

\* the indices a caller passes: below 0, every position, and beyond the end
SequenceIndices == -1..MaxSize + 1

\* list.insert(index, value), and the relinking of LinkedList.insert
InsertAt(data, index, value) ==
    SubSeq(data, 1, index) \o <<value>> \o SubSeq(data, index + 1, Len(data))

\* list.pop(index), and the relinking of LinkedList.delete
RemoveAt(data, index) == SubSeq(data, 1, index) \o SubSeq(data, index + 2, Len(data))

SeqCall(op, index, value, raised, ret) ==
    [op |-> op, index |-> index, value |-> value, raised |-> raised, ret |-> ret]

\* Array(initial_data) or LinkedList(initial_data)
NewSequence ==
    /\ seq_class \in {"Array", "LinkedList"}
    /\ seq_data \in UNION {[1..n -> SequenceItems] : n \in 0..MaxSize}
    /\ seq_size = Len(seq_data)
    /\ seq_last = SeqCall("init", 0, 0, "None", None)

\* the state of the sequence variables when no such container exists
IdleSequence ==
    /\ seq_class = "none"
    /\ seq_data = <<>>
    /\ seq_size = 0
    /\ seq_last = SeqCall("init", 0, 0, "None", None)

\* validate_index(index, len(self._data), "get"); return self._data[index]
Array_get(index) ==
    /\ seq_class = "Array"
    /\ seq_last' = IF index < 0 \/ index >= Len(seq_data)
                   THEN SeqCall("get", index, 0, "IndexError", None)
                   ELSE SeqCall("get", index, 0, "None", <<At(seq_data, index)>>)
    /\ UNCHANGED <<seq_class, seq_data, seq_size, notSequence>>

Array_set(index, value) ==
    /\ seq_class = "Array"
    /\ IF index < 0 \/ index >= Len(seq_data)
       THEN /\ seq_last' = SeqCall("set", index, value, "IndexError", None)
            /\ UNCHANGED seq_data
       ELSE /\ seq_last' = SeqCall("set", index, value, "None", None)
            /\ seq_data' = Put(seq_data, index, value)
    /\ seq_size' = Len(seq_data')
    /\ UNCHANGED <<seq_class, notSequence>>

\* validate_index(index, len(self._data) + 1, "insert")
Array_insert(index, value) ==
    /\ seq_class = "Array"
    /\ Len(seq_data) < MaxSize \/ index \notin 0..Len(seq_data)
    /\ IF index < 0 \/ index >= Len(seq_data) + 1
       THEN /\ seq_last' = SeqCall("insert", index, value, "IndexError", None)
            /\ UNCHANGED seq_data
       ELSE /\ seq_last' = SeqCall("insert", index, value, "None", None)
            /\ seq_data' = InsertAt(seq_data, index, value)
    /\ seq_size' = Len(seq_data')
    /\ UNCHANGED <<seq_class, notSequence>>

Array_delete(index) ==
    /\ seq_class = "Array"
    /\ IF index < 0 \/ index >= Len(seq_data)
       THEN /\ seq_last' = SeqCall("delete", index, 0, "IndexError", None)
            /\ UNCHANGED seq_data
       ELSE /\ seq_last' = SeqCall("delete", index, 0, "None", <<At(seq_data, index)>>)
            /\ seq_data' = RemoveAt(seq_data, index)
    /\ seq_size' = Len(seq_data')
    /\ UNCHANGED <<seq_class, notSequence>>

\* index steps from self._head
LinkedList_get(index) ==
    /\ seq_class = "LinkedList"
    /\ seq_last' = IF index < 0 \/ index >= seq_size
                   THEN SeqCall("get", index, 0, "IndexError", None)
                   ELSE SeqCall("get", index, 0, "None", <<At(seq_data, index)>>)
    /\ UNCHANGED <<seq_class, seq_data, seq_size, notSequence>>

\* LinkedList defines no set and no __setitem__: the attribute lookup fails
LinkedList_set(index, value) ==
    /\ seq_class = "LinkedList"
    /\ seq_last' = SeqCall("set", index, value, "AttributeError", None)
    /\ UNCHANGED <<seq_class, seq_data, seq_size, notSequence>>

\* LinkedList_insert that takes index == self._size for out of bounds
LinkedList_insert_inside(index, value) ==
    /\ seq_class = "LinkedList"
    /\ seq_size < MaxSize \/ index \notin 0..seq_size
    /\ IF index < 0 \/ index >= seq_size
       THEN /\ seq_last' = SeqCall("insert", index, value, "IndexError", None)
            /\ UNCHANGED <<seq_data, seq_size>>
       ELSE /\ seq_last' = SeqCall("insert", index, value, "None", None)
            /\ seq_data' = InsertAt(seq_data, index, value)
            /\ seq_size' = seq_size + 1
    /\ UNCHANGED <<seq_class, notSequence>>

LinkedList_insert(index, value) ==
    /\ seq_class = "LinkedList"
    /\ seq_size < MaxSize \/ index \notin 0..seq_size
    /\ IF index < 0 \/ index > seq_size
       THEN /\ seq_last' = SeqCall("insert", index, value, "IndexError", None)
            /\ UNCHANGED <<seq_data, seq_size>>
       ELSE /\ seq_last' = SeqCall("insert", index, value, "None", None)
            /\ seq_data' = InsertAt(seq_data, index, value)
            /\ seq_size' = seq_size + 1
    /\ UNCHANGED <<seq_class, notSequence>>

LinkedList_delete(index) ==
    /\ seq_class = "LinkedList"
    /\ IF index < 0 \/ index >= seq_size
       THEN /\ seq_last' = SeqCall("delete", index, 0, "IndexError", None)
            /\ UNCHANGED <<seq_data, seq_size>>
       ELSE /\ seq_last' = SeqCall("delete", index, 0, "None", <<At(seq_data, index)>>)
            /\ seq_data' = RemoveAt(seq_data, index)
            /\ seq_size' = seq_size - 1
    /\ UNCHANGED <<seq_class, notSequence>>

NextSequence ==
    \/ \E index \in SequenceIndices : Array_get(index)
    \/ \E index \in SequenceIndices, value \in SequenceItems : Array_set(index, value)
    \/ \E index \in SequenceIndices, value \in SequenceItems : Array_insert(index, value)
    \/ \E index \in SequenceIndices : Array_delete(index)
    \/ \E index \in SequenceIndices : LinkedList_get(index)
    \/ \E index \in SequenceIndices, value \in SequenceItems : LinkedList_set(index, value)
    \/ \E index \in SequenceIndices, value \in SequenceItems : LinkedList_insert(index, value)
    \/ \E index \in SequenceIndices : LinkedList_delete(index)

(***************************************************************************)
(* Properties of the sequence containers                                   *)
(***************************************************************************)
\* the call that made this step had an index outside [0, size), or outside
\* [0, size] for insert
OutOfBounds(call, size) ==
    \/ call.index < 0
    \/ call.index > size
    \/ call.index = size /\ call.op # "insert"

\* a call out of bounds raises IndexError and changes nothing; an insert at
\* index == size appends
BoundsChecked ==
    /\ OutOfBounds(seq_last', seq_size) =>
           /\ seq_last'.raised = "IndexError"
           /\ seq_data' = seq_data
           /\ seq_size' = seq_size
    /\ seq_last'.op = "insert" /\ seq_last'.index = seq_size =>
           /\ seq_last'.raised = "None"
           /\ seq_data' = Append(seq_data, seq_last'.value)
           /\ seq_size' = seq_size + 1

\* C26 as stated: on Array and LinkedList every get, set and delete with an
\* index outside [0, size) and every insert with an index outside [0, size]
\* raises IndexError and leaves contents and size unchanged; insert at index
\* == size appends
C26_OutOfBoundsRaisesIndexError ==
    [][seq_last'.op \in {"get", "set", "insert", "delete"} => BoundsChecked]_vars

\* C26 amended: the same, for get, set, insert and delete of Array and for
\* get, insert and delete of LinkedList, which has no set
C26_OutOfBoundsRaisesIndexErrorWhereDefined ==
    [][/\ seq_last'.op \in {"get", "set", "insert", "delete"}
       /\ ~(seq_class = "LinkedList" /\ seq_last'.op = "set")
       => BoundsChecked]_vars

\* a LinkedList of MaxSize - 1 nodes on which insert at index size + 1 was refused
C26_Witness ==
    /\ seq_class = "LinkedList"
    /\ seq_last.op = "insert"
    /\ seq_last.index = seq_size + 1
    /\ seq_last.raised = "IndexError"
    /\ seq_size = Len(seq_data)
    /\ seq_size = MaxSize - 1

(***************************************************************************)
(* Properties of the BFS queue and the DFS stack                           *)
(***************************************************************************)
\* the positions of the steps of BFS that follow a queue.append
Enqueues(steps) ==
    {k \in 1..Len(steps) : steps[k].phase \in {"initialization", "discovery"}}

\* the vertex appended before step k
Enqueued(steps, k) == steps[k].queue[Len(steps[k].queue)]

\* C27: in every state of a BFS run the queue holds no vertex twice and
\* every queued vertex is in visited; every step that follows an enqueue
\* shows the enqueued vertex added to visited and no other step adds to
\* visited, and no vertex is enqueued twice in the run
C27_BFSEnqueuesEachVertexOnce ==
    tr_class = "BFS" =>
        /\ \A i, j \in 1..Len(tr_queue) : tr_queue[i] = tr_queue[j] => i = j
        /\ SeqElems(tr_queue) \subseteq tr_visited
        /\ \A k \in 1..Len(tr_steps) :
               LET before == IF k = 1 THEN {} ELSE tr_steps[k - 1].visited
               IN  tr_steps[k].visited \ before =
                       IF k \in Enqueues(tr_steps) THEN {Enqueued(tr_steps, k)} ELSE {}
        /\ \A k, m \in Enqueues(tr_steps) :
               Enqueued(tr_steps, k) = Enqueued(tr_steps, m) => k = m

\* BFS looks at the neighbors of a vertex while one of them is in the queue
C27_Witness ==
    /\ tr_class = "BFS"
    /\ tr_pc = "exploring"
    /\ \E i \in 1..Len(tr_neighbors) : tr_neighbors[i][1] \in SeqElems(tr_queue)
    /\ Len(tr_traversal_order) > 1

\* recursive depth-first search in pre-order: a vertex not yet in order is
\* appended, then its neighbors are searched in stored adjacency order
RECURSIVE PreOrder(_, _, _)
RECURSIVE PreOrderNeighbors(_, _, _, _)
PreOrder(adjacency_list, vertex, order) ==
    IF vertex \in SeqElems(order) THEN order
    ELSE PreOrderNeighbors(adjacency_list, get_neighbors(adjacency_list, vertex), 1,
                           Append(order, vertex))

PreOrderNeighbors(adjacency_list, neighbors, i, order) ==
    IF i > Len(neighbors) THEN order
    ELSE PreOrderNeighbors(adjacency_list, neighbors, i + 1,
                           PreOrder(adjacency_list, neighbors[i][1], order))

\* C28: the traversal_order DFS returns is the order of the recursive
\* pre-order search from the start vertex; a step of phase 'backtracking' is
\* for a vertex that was already in visited, shows visited and
\* traversal_order as the step before it, and is followed by the next pop
\* or by the last step, never by the exploring of that vertex
C28_DFSIsRecursivePreOrder ==
    tr_class = "DFS" =>
        /\ (tr_pc = "done" /\ tr_start_vertex # None) =>
               FinalOrder = PreOrder(tr_adjacency_list, tr_start_vertex[1], <<>>)
        /\ \A k \in 2..Len(tr_steps) :
               tr_steps[k].phase = "backtracking" =>
                   /\ tr_steps[k].current_vertex[1] \in tr_steps[k - 1].visited
                   /\ tr_steps[k].visited = tr_steps[k - 1].visited
                   /\ tr_steps[k].traversal_order = tr_steps[k - 1].traversal_order
                   /\ k < Len(tr_steps) =>
                          tr_steps[k + 1].phase \in {"visiting", "backtracking", "complete"}
        /\ tr_steps # <<>> => tr_steps[1].phase # "backtracking"

\* DFS has returned after it popped a vertex that was already visited, from
\* a search that went at least three vertices deep
C28_Witness ==
    /\ tr_class = "DFS"
    /\ tr_pc = "done"
    /\ \E k \in 1..Len(tr_steps) : tr_steps[k].phase = "backtracking"
    /\ Len(tr_steps[Len(tr_steps)].traversal_order) >= 3

(***************************************************************************)
(* Properties of HashTable.contains                                        *)
(***************************************************************************)
\* C29: contains(key) returns True exactly when a pair with that key is in
\* the table, whatever its value, the value None included
C29_ContainsTellsStoredKeys ==
    ht_last.op = "contains" =>
        (ht_last.ret = "True" <=> ht_last.key \in StoredKeys)

(***************************************************************************)
(* BinaryTree (binary_tree.py): the plain binary tree, filled in level     *)
(* order.  A node object is named by its path from the root, the sequence  *)
(* of the fields followed: 2 for left, 3 for right.                        *)
(***************************************************************************)
BinaryTreeValues == 1..MaxItem

RECURSIVE NodeAt(_, _)
NodeAt(node, path) ==
    IF path = <<>> THEN node ELSE NodeAt(node[path[1]], Tail(path))

\* the tree with the field at the end of path set to subtree
RECURSIVE SetAt(_, _, _)
SetAt(node, path, subtree) ==
    IF path = <<>> THEN subtree
    ELSE [node EXCEPT ![path[1]] = SetAt(node[path[1]], Tail(path), subtree)]

\* insert: while queue: node = queue.pop(0); the new node becomes the first
\* missing child
RECURSIVE BinaryTree_insert_loop(_, _, _)
BinaryTree_insert_loop(root, queue, new_node) ==
    LET path == queue[1]
        node == NodeAt(root, path)
    IN  IF left_of(node) = None THEN SetAt(root, Append(path, 2), new_node)
        ELSE IF right_of(node) = None THEN SetAt(root, Append(path, 3), new_node)
        ELSE BinaryTree_insert_loop(root,
                 SubSeq(queue, 2, Len(queue)) \o <<Append(path, 2), Append(path, 3)>>,
                 new_node)

\* delete: while queue: node = queue.pop(0); ...; the children that exist
\* are appended: the nodes in the order they are popped
RECURSIVE BinaryTree_pop_order(_, _, _)
BinaryTree_pop_order(root, queue, popped) ==
    IF queue = <<>> THEN popped
    ELSE LET path == queue[1]
             node == NodeAt(root, path)
             left == IF left_of(node) # None THEN <<Append(path, 2)>> ELSE <<>>
             right == IF right_of(node) # None THEN <<Append(path, 3)>> ELSE <<>>
         IN  BinaryTree_pop_order(root, SubSeq(queue, 2, Len(queue)) \o left \o right,
                                  Append(popped, path))

\* BinaryTree() before any call
NewBinaryTree ==
    /\ tree_class = "BinaryTree"
    /\ tree_root = None
    /\ tree_size = 0
    /\ tree_inserted = {}
    /\ tree_last = TreeCall("init", 0, "None", FALSE)

\* insert is called while the tree has fewer than MaxTreeSize nodes
BinaryTree_insert(value) ==
    /\ tree_class = "BinaryTree"
    /\ tree_size < MaxTreeSize
    /\ Len(BinaryTree_pop_order(tree_root, IF tree_root = None THEN <<>> ELSE <<<<>>>>, <<>>))
           < MaxTreeSize
    /\ tree_root' = IF tree_root = None THEN TreeNode(value)
                    ELSE BinaryTree_insert_loop(tree_root, <<<<>>>>, TreeNode(value))
    /\ tree_size' = tree_size + 1
    /\ tree_inserted' = tree_inserted \cup {value}
    /\ tree_last' = TreeCall("insert", value, "None", FALSE)
    /\ UNCHANGED <<tree_class, notTree>>

\* node_to_delete is the last node popped that holds value, deepest_node the
\* last node popped, parent_of_deepest the last node popped that has a child;
\* delete is called while _size is not negative
BinaryTree_delete(value) ==
    /\ tree_class = "BinaryTree"
    /\ tree_size >= 0
    /\ IF tree_root = None
       THEN /\ tree_last' = TreeCall("delete", value, "False", FALSE)
            /\ UNCHANGED <<tree_root, tree_size>>
       ELSE LET popped == BinaryTree_pop_order(tree_root, <<<<>>>>, <<>>)
                holding == {i \in 1..Len(popped) :
                                value_of(NodeAt(tree_root, popped[i])) = value}
                parents == {i \in 1..Len(popped) :
                                \/ left_of(NodeAt(tree_root, popped[i])) # None
                                \/ right_of(NodeAt(tree_root, popped[i])) # None}
            IN  IF holding = {}
                THEN /\ tree_last' = TreeCall("delete", value, "False", FALSE)
                     /\ UNCHANGED <<tree_root, tree_size>>
                ELSE LET node_to_delete == popped[Greatest(holding)]
                         deepest_node == popped[Len(popped)]
                         replaced == SetAt(tree_root, Append(node_to_delete, 1),
                                           value_of(NodeAt(tree_root, deepest_node)))
                     IN  /\ tree_root' =
                                IF node_to_delete = deepest_node THEN tree_root
                                ELSE IF parents = {} THEN None
                                ELSE IF Append(popped[Greatest(parents)], 2) = deepest_node
                                THEN SetAt(replaced, Append(popped[Greatest(parents)], 2), None)
                                ELSE SetAt(replaced, Append(popped[Greatest(parents)], 3), None)
                         /\ tree_size' = tree_size - 1
                         /\ tree_last' = TreeCall("delete", value, "True", FALSE)
    /\ UNCHANGED <<tree_class, tree_inserted, notTree>>

NextBinaryTree ==
    \/ \E value \in BinaryTreeValues : BinaryTree_insert(value)
    \/ \E value \in BinaryTreeValues : BinaryTree_delete(value)

(***************************************************************************)
(* Properties of BinaryTree                                                *)
(***************************************************************************)
\* C30: after every insert and delete of a BinaryTree len(tree) is the
\* number of nodes reachable from the root, and a delete(value) that returns
\* True leaves the traversal with one occurrence of value less and with the
\* occurrences of every other value unchanged
C30_BinaryTreeSizeAndDelete ==
    [][tree_class = "BinaryTree" =>
           /\ tree_size' = Len(inorder_recursive(tree_root'))
           /\ (tree_last'.op = "delete" /\ tree_last'.ret = "True") =>
                  \A v \in BinaryTreeValues :
                      Occurrences(inorder_recursive(tree_root'), v) =
                          Occurrences(inorder_recursive(tree_root), v)
                              - (IF v = tree_last'.value THEN 1 ELSE 0)]_vars

(***************************************************************************)
(* Specifications: one container is constructed and operated on, the       *)
(* variables of the others keep their idle values.                         *)
(***************************************************************************)
InitTree ==
    NewTree /\ IdleHashTable /\ IdleGraph /\ IdleTraversal /\ IdleArrayAlgorithm
    /\ IdleSequence

SpecTree == InitTree /\ [][NextTree]_vars

InitHashTable ==
    NewHashTable /\ IdleTree /\ IdleGraph /\ IdleTraversal /\ IdleArrayAlgorithm
    /\ IdleSequence

SpecHashTable == InitHashTable /\ [][NextHashTable]_vars

InitGraph ==
    NewGraph /\ IdleTree /\ IdleHashTable /\ IdleTraversal /\ IdleArrayAlgorithm
    /\ IdleSequence

SpecGraph == InitGraph /\ [][NextGraph]_vars

InitTraversal ==
    NewTraversal /\ IdleTree /\ IdleHashTable /\ IdleGraph /\ IdleArrayAlgorithm
    /\ IdleSequence

SpecTraversal == InitTraversal /\ [][NextTraversal]_vars

\* execute is a loop of one thread: while an iteration or the final step is
\* possible, it is taken
SpecTraversalFair == SpecTraversal /\ WF_vars(TraversalStep)

InitArrayAlgorithm ==
    NewArrayAlgorithm /\ IdleTree /\ IdleHashTable /\ IdleGraph /\ IdleTraversal
    /\ IdleSequence

SpecArrayAlgorithm == InitArrayAlgorithm /\ [][NextArrayAlgorithm]_vars

\* every algorithm of the library: an array algorithm or a graph traversal
InitAlgorithm == InitArrayAlgorithm \/ InitTraversal

NextAlgorithm == NextArrayAlgorithm \/ NextTraversal

SpecAlgorithm == InitAlgorithm /\ [][NextAlgorithm]_vars

\* an algorithm object whose caller changes the container between executes
SpecHeldSteps == InitAlgorithm /\ [][NextHeldSteps]_vars

SpecObserved == InitTraversal /\ [][NextObserved]_vars

InitSequence ==
    NewSequence /\ IdleTree /\ IdleHashTable /\ IdleGraph /\ IdleTraversal
    /\ IdleArrayAlgorithm

SpecSequence == InitSequence /\ [][NextSequence]_vars

InitBinaryTree ==
    NewBinaryTree /\ IdleHashTable /\ IdleGraph /\ IdleTraversal /\ IdleArrayAlgorithm
    /\ IdleSequence

SpecBinaryTree == InitBinaryTree /\ [][NextBinaryTree]_vars

====
